---- MODULE Spec2Model ----
(***************************************************************************)
(* A model of the FluentAI stack VM (rust/fluentai-vm/src/vm.rs): the      *)
(* dispatch loop, spawned tasks and promises, channels, actors and the     *)
(* error-handler entry points, over a small fixed bytecode image.          *)
(***************************************************************************)
EXTENDS Integers, Sequences, FiniteSets, TLC

(* ------------------------------ bounds -------------------------------- *)
\* most machines (parent VM + spawned task VMs) alive in one behaviour
MaxMachines == 3
\* most send / receive / await calls the embedder makes in one behaviour
MaxCalls == 3
\* most actors, and most channels, the embedder creates in one behaviour
MaxActors == 2
MaxChannels == 2
\* most messages the embedder sends to actors in one behaviour
MaxMessages == 2

(* -------------------------- program constants ------------------------- *)
STACK_SIZE == 10000
DEFAULT_CHANNEL_CAPACITY == 100
ACTOR_MAILBOX_CAPACITY == 100
MAKECLOSURE_CHUNK_ID_SHIFT == 65536
MAKECLOSURE_CAPTURE_COUNT_MASK == 65535
\* UsageTracker::record_execution: samples kept for the moving average, and the
\* execution count above which a node is a hot path
MAX_SAMPLES == 100
HOT_PATH_THRESHOLD == 1000

(* ------------------------------ helpers ------------------------------- *)
Last(s) == s[Len(s)]
Front(s) == SubSeq(s, 1, Len(s) - 1)
Put(f, k, v) == [x \in (DOMAIN f) \cup {k} |-> IF x = k THEN v ELSE f[x]]
Del(f, k) == [x \in (DOMAIN f) \ {k} |-> f[x]]
IsPrefix(s, t) == Len(s) <= Len(t) /\ SubSeq(t, 1, Len(s)) = s

(* ------------------------------- values ------------------------------- *)
Nil == [t |-> "Nil"]
Integer(i) == [t |-> "Integer", i |-> i]
String(s) == [t |-> "String", s |-> s]
List(items) == [t |-> "List", items |-> items]
Function(chunk_id, env) == [t |-> "Function", chunk_id |-> chunk_id, env |-> env]
Procedure == [t |-> "Procedure"]
Promise(id) == [t |-> "Promise", id |-> id]
Channel(id) == [t |-> "Channel", id |-> id]
Actor(id) == [t |-> "Actor", id |-> id]
\* the other variants values_equal tells apart; a Float is kept as its literal,
\* a Map as a function from its keys
Boolean(b) == [t |-> "Boolean", b |-> b]
Float(f) == [t |-> "Float", f |-> f]
Symbol(s) == [t |-> "Symbol", s |-> s]
Vector(items) == [t |-> "Vector", items |-> items]
Map(entries) == [t |-> "Map", entries |-> entries]
Tagged(tag, values) == [t |-> "Tagged", tag |-> tag, values |-> values]
Module(name) == [t |-> "Module", name |-> name]
Cell(id) == [t |-> "Cell", id |-> id]
\* a handle of the garbage collector (crate::gc), which holds the value allocated
GcHandle(value) == [t |-> "GcHandle", value |-> value]
\* a native function: its closure is named, its declared arity kept beside it
NativeFunction(name, arity) == [t |-> "NativeFunction", name |-> name, arity |-> arity]

is_truthy(value) ==
    CASE value.t = "Nil" -> FALSE
      [] value.t = "Integer" -> value.i # 0
      [] value.t = "String" -> value.s # ""
      [] value.t = "List" -> value.items # <<>>
      [] OTHER -> TRUE

\* values_equal: the arms of its match, every other pair of values being unequal
RECURSIVE values_equal(_, _)
\* x.len() == y.len() && x.iter().zip(y).all(|(a, b)| self.values_equal(a, b))
all_equal(x, y) ==
    Len(x) = Len(y) /\ \A k \in 1..Len(x) : values_equal(x[k], y[k])

values_equal(a, b) ==
    CASE a.t = "Nil" /\ b.t = "Nil" -> TRUE
      [] a.t = "Boolean" /\ b.t = "Boolean" -> a.b = b.b
      [] a.t = "Integer" /\ b.t = "Integer" -> a.i = b.i
      [] a.t = "Float" /\ b.t = "Float" -> a.f = b.f /\ a.f # "NaN"
      [] a.t = "String" /\ b.t = "String" -> a.s = b.s
      [] a.t = "Symbol" /\ b.t = "Symbol" -> a.s = b.s
      [] a.t = "List" /\ b.t = "List" -> all_equal(a.items, b.items)
      [] a.t = "Vector" /\ b.t = "Vector" -> all_equal(a.items, b.items)
      [] a.t = "Map" /\ b.t = "Map" ->
           /\ Cardinality(DOMAIN a.entries) = Cardinality(DOMAIN b.entries)
           /\ \A k \in DOMAIN a.entries :
                 /\ k \in DOMAIN b.entries
                 /\ values_equal(a.entries[k], b.entries[k])
      [] a.t = "Tagged" /\ b.t = "Tagged" ->
           a.tag = b.tag /\ all_equal(a.values, b.values)
      [] a.t = "Module" /\ b.t = "Module" -> a.name = b.name
      [] a.t = "Promise" /\ b.t = "Promise" -> a.id = b.id
      [] a.t = "Channel" /\ b.t = "Channel" -> a.id = b.id
      [] a.t = "Cell" /\ b.t = "Cell" -> a.id = b.id
      [] OTHER -> FALSE

\* VMResult<Value>
Ok(v) == [ok |-> TRUE, val |-> v, kind |-> "none"]
Err(kind) == [ok |-> FALSE, val |-> Nil, kind |-> kind]

(* ------------------------------ bytecode ------------------------------ *)
Instr(opcode, arg) == [opcode |-> opcode, arg |-> arg]
Chunk(instructions, constants) == [instructions |-> instructions, constants |-> constants]

ChunkNames ==
    << "MAIN_SPAWN", "F_ADD", "MAIN_CHAN", "F_SEND", "MAIN_MULTI", "F_ONE", "F_TWO",
       "MAIN_FIN_NORMAL", "MAIN_FIN_THROW", "MAIN_CATCH", "F_THROW", "MAIN_THROW",
       "MAIN_TAIL", "F_LOOP", "F_FOLD", "F_BECOME", "F_FAIL", "MAIN_HALT",
       "MAIN_MOD", "M_GOOD", "M_BAD", "M_DEFINE", "F_SETG", "MAIN_AWAIT_FAIL",
       "MAIN_AWAIT_SEND", "MAIN_FALL", "MAIN_HALT_EMPTY", "MAIN_RETURN_EMPTY",
       "MAIN_JUMP_OUT", "MAIN_CALL_HALT", "F_CALLS", "F_REC", "F_SELF_SEND",
       "MAIN_GC" >>
\* chunk ids are 0-based as in the VM
ChunkId(name) == (CHOOSE i \in 1..Len(ChunkNames) : ChunkNames[i] = name) - 1
MAIN_SPAWN == ChunkId("MAIN_SPAWN")
F_ADD == ChunkId("F_ADD")
MAIN_CHAN == ChunkId("MAIN_CHAN")
F_SEND == ChunkId("F_SEND")
MAIN_MULTI == ChunkId("MAIN_MULTI")
F_ONE == ChunkId("F_ONE")
F_TWO == ChunkId("F_TWO")
MAIN_FIN_NORMAL == ChunkId("MAIN_FIN_NORMAL")
MAIN_FIN_THROW == ChunkId("MAIN_FIN_THROW")
MAIN_CATCH == ChunkId("MAIN_CATCH")
F_THROW == ChunkId("F_THROW")
MAIN_THROW == ChunkId("MAIN_THROW")
MAIN_TAIL == ChunkId("MAIN_TAIL")
F_LOOP == ChunkId("F_LOOP")
F_FOLD == ChunkId("F_FOLD")
F_BECOME == ChunkId("F_BECOME")
F_FAIL == ChunkId("F_FAIL")
MAIN_HALT == ChunkId("MAIN_HALT")
MAIN_MOD == ChunkId("MAIN_MOD")
M_GOOD == ChunkId("M_GOOD")
M_BAD == ChunkId("M_BAD")
M_DEFINE == ChunkId("M_DEFINE")
F_SETG == ChunkId("F_SETG")
MAIN_AWAIT_FAIL == ChunkId("MAIN_AWAIT_FAIL")
MAIN_AWAIT_SEND == ChunkId("MAIN_AWAIT_SEND")
MAIN_FALL == ChunkId("MAIN_FALL")
MAIN_HALT_EMPTY == ChunkId("MAIN_HALT_EMPTY")
MAIN_RETURN_EMPTY == ChunkId("MAIN_RETURN_EMPTY")
MAIN_JUMP_OUT == ChunkId("MAIN_JUMP_OUT")
MAIN_CALL_HALT == ChunkId("MAIN_CALL_HALT")
F_CALLS == ChunkId("F_CALLS")
F_REC == ChunkId("F_REC")
F_SELF_SEND == ChunkId("F_SELF_SEND")
MAIN_GC == ChunkId("MAIN_GC")

\* The image every VM shares (Arc<Bytecode>), in the order of ChunkNames.
Bytecode ==
    << \* 0: let p = spawn(fn () -> 1 + 2) in await(p)
       Chunk(<< Instr("MakeFunc", F_ADD), Instr("Spawn", 0), Instr("Await", 0),
                Instr("Return", 0) >>, <<>>),
       \* 1: fn () -> 1 + 2
       Chunk(<< Instr("PushInt1", 0), Instr("PushInt2", 0), Instr("Add", 0),
                Instr("Return", 0) >>, <<>>),
       \* 2: let c = channel() in spawn(fn () -> send(c, 42)); receive(c)
       Chunk(<< Instr("Channel", 0), Instr("LoadLocal0", 0),
                Instr("MakeClosure", F_SEND * MAKECLOSURE_CHUNK_ID_SHIFT + 1),
                Instr("Spawn", 0), Instr("Pop", 0), Instr("LoadLocal0", 0),
                Instr("Receive", 0), Instr("Return", 0) >>, <<>>),
       \* 3: fn () -> send(c, 42)   (c captured)
       Chunk(<< Instr("LoadCaptured", 0), Instr("PushConst", 0), Instr("Send", 0),
                Instr("Return", 0) >>, << Integer(42) >>),
       \* 4: let p1 = spawn(fn () -> 1), p2 = spawn(fn () -> 2) in [await(p1), await(p2)]
       Chunk(<< Instr("MakeFunc", F_ONE), Instr("Spawn", 0),
                Instr("MakeFunc", F_TWO), Instr("Spawn", 0),
                Instr("LoadLocal0", 0), Instr("Await", 0),
                Instr("LoadLocal1", 0), Instr("Await", 0),
                Instr("MakeList", 2), Instr("Return", 0) >>, <<>>),
       \* 5: fn () -> 1
       Chunk(<< Instr("PushInt1", 0), Instr("Return", 0) >>, <<>>),
       \* 6: fn () -> 2
       Chunk(<< Instr("PushInt2", 0), Instr("Return", 0) >>, <<>>),
       \* 7: try 1 finally nop
       Chunk(<< Instr("TryStartWithFinally", 3), Instr("PushInt1", 0),
                Instr("TryEnd", 0), Instr("FinallyStart", 0), Instr("Nop", 0),
                Instr("FinallyEnd", 0), Instr("Return", 0) >>, <<>>),
       \* 8: try throw("boom") finally nop
       Chunk(<< Instr("TryStartWithFinally", 4), Instr("PushConst", 0),
                Instr("Throw", 0), Instr("TryEnd", 0), Instr("FinallyStart", 0),
                Instr("Nop", 0), Instr("FinallyEnd", 0), Instr("Return", 0) >>,
             << String("boom") >>),
       \* 9: try f() catch e -> e     (f throws one frame deeper)
       Chunk(<< Instr("TryStart", 5), Instr("MakeFunc", F_THROW), Instr("Call", 0),
                Instr("TryEnd", 0), Instr("Return", 0), Instr("Return", 0) >>, <<>>),
       \* 10: fn () -> throw("boom")
       Chunk(<< Instr("PushInt2", 0), Instr("PushConst", 0), Instr("Throw", 0),
                Instr("PushNil", 0), Instr("Return", 0) >>, << String("boom") >>),
       \* 11: throw("boom") with no handler installed
       Chunk(<< Instr("PushConst", 0), Instr("Throw", 0), Instr("PushInt1", 0),
                Instr("Return", 0) >>, << String("boom") >>),
       \* 12: loop(2)
       Chunk(<< Instr("MakeFunc", F_LOOP), Instr("PushInt2", 0), Instr("Call", 1),
                Instr("Return", 0) >>, <<>>),
       \* 13: loop(n) = if n = 0 then 0 else loop(n - 1)   (self tail call)
       Chunk(<< Instr("LoadLocal0", 0), Instr("JumpIfNot", 8),
                Instr("MakeFunc", F_LOOP), Instr("LoadLocal0", 0),
                Instr("PushInt1", 0), Instr("Sub", 0), Instr("TailCall", 1),
                Instr("Return", 0), Instr("PushInt0", 0), Instr("Return", 0) >>,
             <<>>),
       \* 14: actor handler (state, msg) -> state + state + msg
       Chunk(<< Instr("LoadLocal0", 0), Instr("LoadLocal0", 0), Instr("Add", 0),
                Instr("LoadLocal1", 0), Instr("Add", 0), Instr("Return", 0) >>, <<>>),
       \* 15: actor handler (state, msg) -> become(msg); state
       Chunk(<< Instr("LoadLocal1", 0), Instr("Become", 0), Instr("Pop", 0),
                Instr("LoadLocal0", 0), Instr("Return", 0) >>, <<>>),
       \* 16: fn () -> 1 + nil    (fails with TypeError)
       Chunk(<< Instr("PushInt1", 0), Instr("PushNil", 0), Instr("Add", 0),
                Instr("Return", 0) >>, <<>>),
       \* 17: 1; 2; halt
       Chunk(<< Instr("PushInt1", 0), Instr("PushInt2", 0), Instr("Halt", 0) >>,
             <<>>),
       \* 18: a program that imports modules and exports bindings; its instructions
       \* are chosen one at a time, its constants are the names they use
       Chunk(<< >>,
             << String("good"), String("bad"), String("define"), String("missing"),
                String("x"), String("y"), String("g") >>),
       \* 19: module good: export x = 1; g := 1
       Chunk(<< Instr("PushInt1", 0), Instr("ExportBinding", 0),
                Instr("StoreGlobal", 1), Instr("PushNil", 0), Instr("Return", 0) >>,
             << String("x"), String("g") >>),
       \* 20: module bad: export x = 2; g := 2; 1 + nil   (fails with TypeError)
       Chunk(<< Instr("PushInt2", 0), Instr("ExportBinding", 0),
                Instr("StoreGlobal", 1), Instr("PushInt1", 0), Instr("PushNil", 0),
                Instr("Add", 0), Instr("Return", 0) >>,
             << String("x"), String("g") >>),
       \* 21: module define: (define y 2), no ExportBinding
       Chunk(<< Instr("PushInt2", 0), Instr("StoreGlobal", 0), Instr("PushNil", 0),
                Instr("Return", 0) >>,
             << String("y") >>),
       \* 22: fn () -> g := 0; t := 1; nil
       Chunk(<< Instr("PushInt0", 0), Instr("StoreGlobal", 0), Instr("PushInt1", 0),
                Instr("StoreGlobal", 1), Instr("PushNil", 0), Instr("Return", 0) >>,
             << String("g"), String("t") >>),
       \* 23: let p1 = spawn(fn () -> 1 + nil), p2 = spawn(fn () -> 1)
       \*     in [await(p1), await(p2)]
       Chunk(<< Instr("MakeFunc", F_FAIL), Instr("Spawn", 0),
                Instr("MakeFunc", F_ONE), Instr("Spawn", 0),
                Instr("LoadLocal0", 0), Instr("Await", 0),
                Instr("LoadLocal1", 0), Instr("Await", 0),
                Instr("MakeList", 2), Instr("Return", 0) >>, <<>>),
       \* 24: let c = channel() in await(spawn(fn () -> send(c, 42)))
       Chunk(<< Instr("Channel", 0), Instr("LoadLocal0", 0),
                Instr("MakeClosure", F_SEND * MAKECLOSURE_CHUNK_ID_SHIFT + 1),
                Instr("Spawn", 0), Instr("Await", 0), Instr("Return", 0) >>, <<>>),
       \* 25: 1, with no Return after it
       Chunk(<< Instr("PushInt1", 0) >>, <<>>),
       \* 26: halt, with nothing on the stack
       Chunk(<< Instr("Halt", 0) >>, <<>>),
       \* 27: return, with nothing on the stack
       Chunk(<< Instr("Return", 0) >>, <<>>),
       \* 28: 1, then a jump to a target past the end of the chunk
       Chunk(<< Instr("PushInt1", 0), Instr("Jump", 5), Instr("Return", 0) >>, <<>>),
       \* 29: 0; f()   where f is chunk 17 (1; 2; halt)
       Chunk(<< Instr("PushInt0", 0), Instr("MakeFunc", MAIN_HALT), Instr("Call", 0),
                Instr("Return", 0) >>, <<>>),
       \* 30: fn () -> one()   (a call into another chunk)
       Chunk(<< Instr("MakeFunc", F_ONE), Instr("Call", 0), Instr("Return", 0) >>,
             <<>>),
       \* 31: rec(n) = if n = 0 then 0 else rec(n - 1)   (a call into the same chunk)
       Chunk(<< Instr("LoadLocal0", 0), Instr("JumpIfNot", 8),
                Instr("MakeFunc", F_REC), Instr("LoadLocal0", 0),
                Instr("PushInt1", 0), Instr("Sub", 0), Instr("Call", 1),
                Instr("Return", 0), Instr("PushInt0", 0), Instr("Return", 0) >>,
             <<>>),
       \* 32: actor handler (state, msg) -> send(msg, state); state
       \*     (the message is an actor, the state is sent to it)
       Chunk(<< Instr("LoadLocal1", 0), Instr("LoadLocal0", 0), Instr("ActorSend", 0),
                Instr("Pop", 0), Instr("LoadLocal0", 0), Instr("Return", 0) >>, <<>>),
       \* 33: gc_deref(gc_alloc(1))
       Chunk(<< Instr("PushInt1", 0), Instr("GcAlloc", 0), Instr("GcDeref", 0),
                Instr("Return", 0) >>, <<>>)
    >>

ChunkAt(chunk_id) == Bytecode[chunk_id + 1]
MainChunks == {MAIN_SPAWN, MAIN_CHAN, MAIN_MULTI, MAIN_FIN_NORMAL, MAIN_FIN_THROW,
               MAIN_CATCH, MAIN_THROW, MAIN_TAIL, MAIN_HALT}

(* -------------------------------- VM ---------------------------------- *)
CallFrame(chunk_id, ip, stack_base, env) ==
    [chunk_id |-> chunk_id, ip |-> ip, stack_base |-> stack_base, env |-> env]

IdGenerator_new == [promise |-> 1, channel |-> 1, actor |-> 1]

\* the default call-depth limit (ResourceLimits::default)
MaxCallDepth == 4

\* VM::with_shared_bytecode: every collection empty, no actor context
VM_new ==
    [ stack |-> <<>>, call_stack |-> <<>>, globals |-> <<>>,
      id_generator |-> IdGenerator_new,
      promises |-> <<>>, channels |-> <<>>, actors |-> <<>>,
      instruction_count |-> 0, max_call_depth |-> MaxCallDepth,
      error_handler_stack |-> <<>>, finally_states |-> <<>>,
      current_actor |-> {}, current_actor_message |-> <<>>,
      module_loader |-> <<>>, loaded_modules |-> <<>>,
      current_module |-> <<>>, module_stack |-> <<>>,
      usage_tracker |-> <<>>, security_manager |-> <<>>,
      gc |-> <<>>, cells |-> <<>>, handler_stack |-> <<>> ]

\* the outcome of an operation on a VM: the VM after it, and Continue / Return /
\* Halt or the kind of the error it returned; spawn holds the task handed to the
\* host scheduler, if any
Out(vm, st) == [vm |-> vm, st |-> st, spawn |-> <<>>]
IsErr(st) == st \notin {"Continue", "Return", "Halt"}

\* push without the room it needs: accepts a value on a full stack
push_over(vm, value) ==
    IF Len(vm.stack) > STACK_SIZE
    THEN Out(vm, "StackOverflow")
    ELSE Out([vm EXCEPT !.stack = Append(@, value)], "Continue")

push(vm, value) ==
    IF Len(vm.stack) >= STACK_SIZE
    THEN Out(vm, "StackOverflow")
    ELSE Out([vm EXCEPT !.stack = Append(@, value)], "Continue")

\* pop: the caller tests CanPop, the error being StackUnderflow
CanPop(vm) == Len(vm.stack) > 0
Top(vm) == Last(vm.stack)
Popped(vm) == [vm EXCEPT !.stack = Front(@)]

(* ------------------- VM methods (vm.rs, impl VM) ----------------------- *)
get_local(vm, index) ==
    IF vm.call_stack = <<>> THEN Err("RuntimeError")
    ELSE LET stack_idx == Last(vm.call_stack).stack_base + index
         IN  IF stack_idx < Len(vm.stack) THEN Ok(vm.stack[stack_idx + 1])
             ELSE Err("RuntimeError")

\* a set_local that counts the slot from the bottom of the operand stack
set_local_from_bottom(vm, index, value) ==
    IF vm.call_stack = <<>> THEN Out(vm, "RuntimeError")
    ELSE IF index < Len(vm.stack)
    THEN Out([vm EXCEPT !.stack[index + 1] = value], "Continue")
    ELSE Out(vm, "RuntimeError")

set_local(vm, index, value) ==
    IF vm.call_stack = <<>> THEN Out(vm, "RuntimeError")
    ELSE LET stack_idx == Last(vm.call_stack).stack_base + index
         IN  IF stack_idx < Len(vm.stack)
             THEN Out([vm EXCEPT !.stack[stack_idx + 1] = value], "Continue")
             ELSE Out(vm, "RuntimeError")

get_upvalue(vm, index) ==
    IF vm.call_stack = <<>> THEN Err("RuntimeError")
    ELSE LET env == Last(vm.call_stack).env
         IN  IF index < Len(env) THEN Ok(env[index + 1]) ELSE Err("RuntimeError")

get_constant(chunk_id, index) ==
    IF index < Len(ChunkAt(chunk_id).constants)
    THEN Ok(ChunkAt(chunk_id).constants[index + 1])
    ELSE Err("InvalidConstantIndex")

set_ip(vm, ip) ==
    IF vm.call_stack = <<>> THEN vm
    ELSE [vm EXCEPT !.call_stack[Len(vm.call_stack)].ip = ip]

\* set_resource_limits: the embedder's limit replaces the default one
set_resource_limits(vm, max_call_depth) == [vm EXCEPT !.max_call_depth = max_call_depth]

\* reset: the runtime state it names is cleared, the rest is left as it is
reset(vm) ==
    [vm EXCEPT !.stack = <<>>, !.call_stack = <<>>, !.globals = <<>>,
               !.promises = <<>>, !.channels = <<>>, !.cells = <<>>,
               !.instruction_count = 0, !.handler_stack = <<>>,
               !.error_handler_stack = <<>>, !.finally_states = <<>>,
               !.loaded_modules = <<>>, !.current_module = <<>>,
               !.module_stack = <<>>]

\* with_gc: a collector with the default configuration
with_gc(vm) == [vm EXCEPT !.gc = << "GarbageCollector" >>]

\* a gc_alloc that hands out a handle whether or not a collector is installed
gc_alloc_always(vm, value) == Ok(GcHandle(value))

\* gc_alloc: a handle when a collector is installed, the value as it is otherwise
gc_alloc(vm, value) ==
    IF vm.gc # <<>> THEN Ok(GcHandle(value)) ELSE Ok(value)

push_call_frame(vm, frame) ==
    IF Len(vm.call_stack) >= vm.max_call_depth
    THEN Out(vm, "CallStackOverflow")
    ELSE Out([vm EXCEPT !.call_stack = Append(@, frame)], "Continue")

pop_call_frame_with_return(vm, return_val) ==
    IF vm.call_stack = <<>> THEN Out(vm, "Continue")
    ELSE LET frame == Last(vm.call_stack)
             vm1 == [vm EXCEPT !.call_stack = Front(@),
                               !.stack = SubSeq(@, 1, frame.stack_base)]
         IN  push(vm1, return_val)

\* the closures the arithmetic opcodes pass to binary_int_op
IntOp(op, x, y) ==
    CASE op = "add" -> x + y
      [] op = "sub" -> x - y

\* binary_int_op: pop b, pop a, both Integer or TypeError
binary_int_op(vm, op) ==
    IF Len(vm.stack) = 0 THEN Out(vm, "StackUnderflow")
    ELSE IF Len(vm.stack) = 1 THEN Out(Popped(vm), "StackUnderflow")
    ELSE LET b == Top(vm)
             a == Top(Popped(vm))
             vm2 == Popped(Popped(vm))
         IN  IF a.t = "Integer" /\ b.t = "Integer"
             THEN push(vm2, Integer(IntOp(op, a.i, b.i)))
             ELSE Out(vm2, "TypeError")

(* ---- async support ---- *)
\* IdGenerator (crate::safety): ids handed out in increasing order, never twice
next_promise_id(vm) == vm.id_generator.promise
next_channel_id(vm) == vm.id_generator.channel
next_actor_id(vm) == vm.id_generator.actor

\* a oneshot receiver held in vm.promises: nothing sent yet, or the task's result
SlotPending == [ready |-> FALSE, res |-> Ok(Nil)]
SlotReady(result) == [ready |-> TRUE, res |-> result]

\* a bounded mpsc channel held with both its ends in one map entry
MpscChannel(capacity) == [cap |-> capacity, buf |-> <<>>]

create_channel(vm) ==
    LET channel_id == next_channel_id(vm)
    IN  [vm |-> [vm EXCEPT !.id_generator.channel = @ + 1,
                           !.channels = Put(@, channel_id,
                                            MpscChannel(DEFAULT_CHANNEL_CAPACITY))],
         id |-> channel_id]

\* a send that takes the value whatever the channel already buffers
send_to_channel_unbounded(vm, channel_id, value) ==
    IF channel_id \in DOMAIN vm.channels
    THEN Out([vm EXCEPT !.channels[channel_id].buf = Append(@, value)], "Continue")
    ELSE Out(vm, "UnknownIdentifier")

\* tx.try_send
send_to_channel(vm, channel_id, value) ==
    IF channel_id \in DOMAIN vm.channels
    THEN IF Len(vm.channels[channel_id].buf) >= vm.channels[channel_id].cap
         THEN Out(vm, "AsyncError")
         ELSE Out([vm EXCEPT !.channels[channel_id].buf = Append(@, value)], "Continue")
    ELSE Out(vm, "UnknownIdentifier")

\* a receive that takes the newest buffered value instead of the oldest
receive_from_channel_newest(vm, channel_id) ==
    IF channel_id \in DOMAIN vm.channels
    THEN IF vm.channels[channel_id].buf # <<>>
         THEN [vm |-> [vm EXCEPT !.channels[channel_id].buf = Front(@)],
               res |-> Ok(Last(vm.channels[channel_id].buf)), fromBuffer |-> TRUE]
         ELSE [vm |-> vm, res |-> Ok(Nil), fromBuffer |-> FALSE]
    ELSE [vm |-> vm, res |-> Err("UnknownIdentifier"), fromBuffer |-> FALSE]

\* a receive that returns the oldest buffered value and leaves it in the buffer
receive_from_channel_peek(vm, channel_id) ==
    IF channel_id \in DOMAIN vm.channels
    THEN IF vm.channels[channel_id].buf # <<>>
         THEN [vm |-> vm, res |-> Ok(Head(vm.channels[channel_id].buf)),
               fromBuffer |-> TRUE]
         ELSE [vm |-> vm, res |-> Ok(Nil), fromBuffer |-> FALSE]
    ELSE [vm |-> vm, res |-> Err("UnknownIdentifier"), fromBuffer |-> FALSE]

\* rx.try_recv; fromBuffer tells a value taken from the buffer from the Nil of an
\* empty channel
receive_from_channel(vm, channel_id) ==
    IF channel_id \in DOMAIN vm.channels
    THEN IF vm.channels[channel_id].buf # <<>>
         THEN [vm |-> [vm EXCEPT !.channels[channel_id].buf = Tail(@)],
               res |-> Ok(Head(vm.channels[channel_id].buf)), fromBuffer |-> TRUE]
         ELSE [vm |-> vm, res |-> Ok(Nil), fromBuffer |-> FALSE]
    ELSE [vm |-> vm, res |-> Err("UnknownIdentifier"), fromBuffer |-> FALSE]

\* an await that looks the receiver up and leaves it registered
await_promise_keep(vm, promise_id) ==
    IF promise_id \in DOMAIN vm.promises
    THEN IF vm.promises[promise_id].ready
         THEN [vm |-> vm, res |-> vm.promises[promise_id].res]
         ELSE [vm |-> vm, res |-> Ok(Nil)]
    ELSE [vm |-> vm, res |-> Err("AsyncError")]

\* an await that fails when the task has not sent its result yet
await_promise_pending_fails(vm, promise_id) ==
    IF promise_id \in DOMAIN vm.promises
    THEN LET receiver == vm.promises[promise_id]
             vm1 == [vm EXCEPT !.promises = Del(@, promise_id)]
         IN  IF receiver.ready
             THEN [vm |-> vm1, res |-> receiver.res]
             ELSE [vm |-> vm1, res |-> Err("AsyncError")]
    ELSE [vm |-> vm, res |-> Err("AsyncError")]

\* an await that turns the error of a failed task into Nil
await_promise_swallow(vm, promise_id) ==
    IF promise_id \in DOMAIN vm.promises
    THEN LET receiver == vm.promises[promise_id]
             vm1 == [vm EXCEPT !.promises = Del(@, promise_id)]
         IN  IF receiver.ready /\ receiver.res.ok
             THEN [vm |-> vm1, res |-> receiver.res]
             ELSE [vm |-> vm1, res |-> Ok(Nil)]
    ELSE [vm |-> vm, res |-> Err("AsyncError")]

await_promise(vm, promise_id) ==
    IF promise_id \in DOMAIN vm.promises
    THEN LET receiver == vm.promises[promise_id]
             vm1 == [vm EXCEPT !.promises = Del(@, promise_id)]
         IN  IF receiver.ready
             THEN [vm |-> vm1, res |-> receiver.res]
             ELSE [vm |-> vm1, res |-> Ok(Nil)]
    ELSE [vm |-> vm, res |-> Err("AsyncError")]

\* spawn_task: the promise is registered, the task handed to the scheduler with a
\* clone of the globals, and Promise(id) pushed
spawn_task(vm, func) ==
    IF func.t = "Function"
    THEN LET promise_id == next_promise_id(vm)
             vm1 == [vm EXCEPT !.id_generator.promise = @ + 1,
                               !.promises = Put(@, promise_id, SlotPending)]
             o == push(vm1, Promise(promise_id))
         IN  [o EXCEPT !.spawn = << [chunk_id |-> func.chunk_id, env |-> func.env,
                                     promise_id |-> promise_id,
                                     globals |-> vm.globals] >>]
    ELSE Out(vm, "TypeError")

\* a task VM that is not given the globals cloned at the spawn
task_vm_own_globals(task) ==
    [VM_new EXCEPT !.call_stack = << CallFrame(task.chunk_id, 0, 0, task.env) >>]

\* the VM the spawned task builds for itself before run_inner
task_vm(task) ==
    [VM_new EXCEPT !.globals = task.globals,
                   !.call_stack = << CallFrame(task.chunk_id, 0, 0, task.env) >>]

(* ---- tail calls and error handlers: the entry points the opcodes use ---- *)
setup_tail_call(vm, func, args) == vm
handle_tail_return(vm, result) ==
    IF vm.call_stack = <<>> THEN Out(vm, "Continue")
    ELSE LET frame == Last(vm.call_stack)
         IN  push([vm EXCEPT !.call_stack = Front(@),
                             !.stack = SubSeq(@, 1, frame.stack_base)], result)
push_error_handler(vm, catch_ip, finally_ip) == vm
pop_error_handler(vm) == vm
throw_error(vm, error) == Out(vm, "Continue")
start_finally_block(vm) == vm
end_finally_block(vm) == vm

(* ---- actors ---- *)
ActorRec(state, handler) == [state |-> state, handler |-> handler, mailbox |-> <<>>]

create_actor(vm, initial_state, handler) ==
    IF handler.t \in {"Function", "Procedure"}
    THEN LET actor_id == next_actor_id(vm)
         IN  [vm |-> [vm EXCEPT !.id_generator.actor = @ + 1,
                                !.actors = Put(@, actor_id,
                                               ActorRec(initial_state, handler))],
              res |-> Ok(Actor(actor_id))]
    ELSE [vm |-> vm, res |-> Err("TypeError")]

send_to_actor(vm, actor_id, message) ==
    IF actor_id \in DOMAIN vm.actors
    THEN IF Len(vm.actors[actor_id].mailbox) >= ACTOR_MAILBOX_CAPACITY
         THEN Out(vm, "AsyncError")
         ELSE Out([vm EXCEPT !.actors[actor_id].mailbox = Append(@, message)],
                  "Continue")
    ELSE Out(vm, "UnknownIdentifier")

update_actor_state(vm, actor_id, new_state) ==
    IF actor_id \in DOMAIN vm.actors
    THEN Out([vm EXCEPT !.actors[actor_id].state = new_state], "Continue")
    ELSE Out(vm, "UnknownIdentifier")

(* ------------- opcode handlers (crate::opcode_handlers) ---------------- *)
\* Each handler pops its operands and calls the VM method above that does the work.
op_Pop(vm) == IF CanPop(vm) THEN Out(Popped(vm), "Continue") ELSE Out(vm, "StackUnderflow")

op_PushConst(vm, chunk_id, index) ==
    LET c == get_constant(chunk_id, index)
    IN  IF c.ok THEN push(vm, c.val) ELSE Out(vm, c.kind)

op_Add(vm) == binary_int_op(vm, "add")
op_Sub(vm) == binary_int_op(vm, "sub")

op_LoadLocal(vm, index) ==
    LET r == get_local(vm, index)
    IN  IF r.ok THEN push(vm, r.val) ELSE Out(vm, r.kind)

op_LoadCaptured(vm, index) ==
    LET r == get_upvalue(vm, index)
    IN  IF r.ok THEN push(vm, r.val) ELSE Out(vm, r.kind)

op_MakeList(vm, n) ==
    IF Len(vm.stack) < n THEN Out([vm EXCEPT !.stack = <<>>], "StackUnderflow")
    ELSE push([vm EXCEPT !.stack = SubSeq(@, 1, Len(@) - n)],
              List(SubSeq(vm.stack, Len(vm.stack) - n + 1, Len(vm.stack))))

op_Jump(vm, target) == Out(set_ip(vm, target), "Continue")

op_JumpIfNot(vm, target) ==
    IF ~CanPop(vm) THEN Out(vm, "StackUnderflow")
    ELSE IF is_truthy(Top(vm)) THEN Out(Popped(vm), "Continue")
    ELSE Out(set_ip(Popped(vm), target), "Continue")

\* Call(argc): pop the arguments and the function, push the arguments back above
\* the new frame's stack_base, push the frame
op_Call(vm, arg_count) ==
    IF Len(vm.stack) < arg_count + 1
    THEN Out([vm EXCEPT !.stack = <<>>], "StackUnderflow")
    ELSE LET n == Len(vm.stack)
             args == SubSeq(vm.stack, n - arg_count + 1, n)
             func == vm.stack[n - arg_count]
             vm1 == [vm EXCEPT !.stack = SubSeq(@, 1, n - arg_count - 1)]
         IN  IF func.t = "Function"
             THEN push_call_frame([vm1 EXCEPT !.stack = @ \o args],
                                  CallFrame(func.chunk_id, 0, Len(vm1.stack), func.env))
             ELSE Out(vm1, "TypeError")

\* TailCall(argc): pop the arguments and the function, hand them to setup_tail_call
op_TailCall(vm, arg_count) ==
    IF Len(vm.stack) < arg_count + 1
    THEN Out([vm EXCEPT !.stack = <<>>], "StackUnderflow")
    ELSE LET n == Len(vm.stack)
             args == SubSeq(vm.stack, n - arg_count + 1, n)
             func == vm.stack[n - arg_count]
             vm1 == [vm EXCEPT !.stack = SubSeq(@, 1, n - arg_count - 1)]
         IN  Out(setup_tail_call(vm1, func, args), "Continue")

\* Return: the last frame's Return is left to the dispatch loop; any other pops
\* the return value and the frame
op_Return(vm) ==
    IF Len(vm.call_stack) <= 1 THEN Out(vm, "Return")
    ELSE IF ~CanPop(vm) THEN Out(vm, "StackUnderflow")
    ELSE pop_call_frame_with_return(Popped(vm), Top(vm))

op_Spawn(vm) ==
    IF ~CanPop(vm) THEN Out(vm, "StackUnderflow") ELSE spawn_task(Popped(vm), Top(vm))

op_Await(vm) ==
    IF ~CanPop(vm) THEN Out(vm, "StackUnderflow")
    ELSE IF Top(vm).t # "Promise" THEN Out(Popped(vm), "TypeError")
    ELSE LET r == await_promise(Popped(vm), Top(vm).id)
         IN  IF r.res.ok THEN push(r.vm, r.res.val) ELSE Out(r.vm, r.res.kind)

op_Channel(vm) ==
    LET c == create_channel(vm) IN push(c.vm, Channel(c.id))

op_Send(vm) ==
    IF Len(vm.stack) < 2 THEN Out([vm EXCEPT !.stack = <<>>], "StackUnderflow")
    ELSE LET value == Top(vm)
             channel == Top(Popped(vm))
             vm2 == Popped(Popped(vm))
         IN  IF channel.t # "Channel" THEN Out(vm2, "TypeError")
             ELSE LET o == send_to_channel(vm2, channel.id, value)
                  IN  IF IsErr(o.st) THEN o ELSE push(o.vm, Nil)

op_Receive(vm) ==
    IF ~CanPop(vm) THEN Out(vm, "StackUnderflow")
    ELSE IF Top(vm).t # "Channel" THEN Out(Popped(vm), "TypeError")
    ELSE LET r == receive_from_channel(Popped(vm), Top(vm).id)
         IN  IF r.res.ok THEN push(r.vm, r.res.val) ELSE Out(r.vm, r.res.kind)

\* Become: overwrite the state of the actor whose handler is running
op_Become(vm) ==
    IF ~CanPop(vm) THEN Out(vm, "StackUnderflow")
    ELSE IF vm.current_actor = {} THEN Out(Popped(vm), "RuntimeError")
    ELSE LET actor_id == CHOOSE a \in vm.current_actor : TRUE
             o == update_actor_state(Popped(vm), actor_id, Top(vm))
         IN  IF IsErr(o.st) THEN o ELSE push(o.vm, Nil)

\* ActorSend: pop the message and the actor, enqueue, push nil
op_ActorSend(vm) ==
    IF Len(vm.stack) < 2 THEN Out([vm EXCEPT !.stack = <<>>], "StackUnderflow")
    ELSE LET message == Top(vm)
             actor == Top(Popped(vm))
             vm2 == Popped(Popped(vm))
         IN  IF actor.t # "Actor" THEN Out(vm2, "TypeError")
             ELSE LET o == send_to_actor(vm2, actor.id, message)
                  IN  IF IsErr(o.st) THEN o ELSE push(o.vm, Nil)

op_TryStart(vm, catch_ip) == Out(push_error_handler(vm, catch_ip, {}), "Continue")
op_TryStartWithFinally(vm, finally_ip) ==
    Out(push_error_handler(vm, finally_ip, {finally_ip}), "Continue")
op_TryEnd(vm) == Out(pop_error_handler(vm), "Continue")
op_Throw(vm) ==
    IF ~CanPop(vm) THEN Out(vm, "StackUnderflow") ELSE throw_error(Popped(vm), Top(vm))
op_FinallyStart(vm) == Out(start_finally_block(vm), "Continue")
op_FinallyEnd(vm) == Out(end_finally_block(vm), "Continue")

\* MakeClosure, in execute_instruction itself: unpack, pop the captures, reverse
Reverse(s) == [k \in 1..Len(s) |-> s[Len(s) + 1 - k]]

\* for _ in 0..capture_count { env.push(self.pop()?) }
RECURSIVE pop_captures(_, _, _)
pop_captures(vm, count, env) ==
    IF count = 0 THEN [vm |-> vm, env |-> env, ok |-> TRUE]
    ELSE IF ~CanPop(vm) THEN [vm |-> vm, env |-> env, ok |-> FALSE]
    ELSE pop_captures(Popped(vm), count - 1, Append(env, Top(vm)))

\* a MakeClosure that keeps the captures in the order they were popped
op_MakeClosure_popped_order(vm, packed) ==
    LET chunk_id == packed \div MAKECLOSURE_CHUNK_ID_SHIFT
        capture_count == packed % (MAKECLOSURE_CAPTURE_COUNT_MASK + 1)
        r == pop_captures(vm, capture_count, <<>>)
    IN  IF ~r.ok THEN Out(r.vm, "StackUnderflow")
        ELSE push(r.vm, Function(chunk_id, r.env))

op_MakeClosure(vm, packed) ==
    LET chunk_id == packed \div MAKECLOSURE_CHUNK_ID_SHIFT
        capture_count == packed % (MAKECLOSURE_CAPTURE_COUNT_MASK + 1)
        r == pop_captures(vm, capture_count, <<>>)
    IN  IF ~r.ok THEN Out(r.vm, "StackUnderflow")
        ELSE push(r.vm, Function(chunk_id, Reverse(r.env)))

\* run(): push the frame of the main chunk (the loop is run_inner)
run_push_main(vm, main) ==
    [vm EXCEPT !.call_stack = Append(@, CallFrame(main, 0, 0, <<>>))]

\* most instructions a nested loop (call_value, a module's run) runs in a behaviour
MaxFuel == 12

(* ---------------------------- usage tracker ----------------------------- *)
UsageTracker_new == [chunk_to_node |-> <<>>, stats |-> <<>>, execution_times |-> <<>>]

\* UsageStatistics::default()
UsageStatistics_default ==
    [execution_count |-> 0, avg_execution_time_ns |-> 0, error_count |-> 0,
     is_hot_path |-> FALSE]

\* self.stats.entry(node_id).or_default(), self.execution_times.entry(..).or_default()
or_default(map, key, default) == IF key \in DOMAIN map THEN map[key] ELSE default

RECURSIVE Sum(_)
Sum(s) == IF s = <<>> THEN 0 ELSE s[1] + Sum(Tail(s))

register_chunk(tracker, chunk_id, node_id) ==
    [tracker EXCEPT !.chunk_to_node = Put(@, chunk_id, node_id)]

\* a record_execution that marks the node when it reaches the threshold
record_execution_early(tracker, chunk_id, execution_time_ns) ==
    IF chunk_id \notin DOMAIN tracker.chunk_to_node THEN tracker
    ELSE LET node_id == tracker.chunk_to_node[chunk_id]
             stats == or_default(tracker.stats, node_id, UsageStatistics_default)
             count == stats.execution_count + 1
             pushed == Append(or_default(tracker.execution_times, node_id, <<>>),
                              execution_time_ns)
             times == IF Len(pushed) > MAX_SAMPLES THEN Tail(pushed) ELSE pushed
         IN  [tracker EXCEPT
                !.execution_times = Put(@, node_id, times),
                !.stats = Put(@, node_id,
                              [stats EXCEPT
                                 !.execution_count = count,
                                 !.avg_execution_time_ns = Sum(times) \div Len(times),
                                 !.is_hot_path = IF count >= HOT_PATH_THRESHOLD
                                                 THEN TRUE ELSE @])]

record_execution(tracker, chunk_id, execution_time_ns) ==
    IF chunk_id \notin DOMAIN tracker.chunk_to_node THEN tracker
    ELSE LET node_id == tracker.chunk_to_node[chunk_id]
             stats == or_default(tracker.stats, node_id, UsageStatistics_default)
             count == stats.execution_count + 1
             pushed == Append(or_default(tracker.execution_times, node_id, <<>>),
                              execution_time_ns)
             times == IF Len(pushed) > MAX_SAMPLES THEN Tail(pushed) ELSE pushed
         IN  [tracker EXCEPT
                !.execution_times = Put(@, node_id, times),
                !.stats = Put(@, node_id,
                              [stats EXCEPT
                                 !.execution_count = count,
                                 !.avg_execution_time_ns = Sum(times) \div Len(times),
                                 !.is_hot_path = IF count > HOT_PATH_THRESHOLD
                                                 THEN TRUE ELSE @])]

record_error(tracker, chunk_id) ==
    IF chunk_id \notin DOMAIN tracker.chunk_to_node THEN tracker
    ELSE LET node_id == tracker.chunk_to_node[chunk_id]
             stats == or_default(tracker.stats, node_id, UsageStatistics_default)
         IN  [tracker EXCEPT
                !.stats = Put(@, node_id, [stats EXCEPT !.error_count = @ + 1])]

enable_usage_tracking(vm) == [vm EXCEPT !.usage_tracker = << UsageTracker_new >>]

(* ------------------------------ modules -------------------------------- *)
\* (without a frame it is Bytecode.main_chunk; every VM of the model has a frame
\* when it executes an instruction)
current_chunk(vm) ==
    IF vm.call_stack = <<>> THEN MAIN_SPAWN ELSE Last(vm.call_stack).chunk_id

get_constant_string(vm, idx) ==
    LET constants == ChunkAt(current_chunk(vm)).constants
    IN  IF idx >= Len(constants) THEN Err("InvalidConstantIndex")
        ELSE IF constants[idx + 1].t = "String" THEN Ok(constants[idx + 1].s)
        ELSE Err("TypeError")

set_global(vm, name, value) == [vm EXCEPT !.globals = Put(@, name, value)]

\* StoreGlobal idx: pop the value and store it under the name constants[idx]
op_StoreGlobal(vm, idx) ==
    LET name == get_constant_string(vm, idx)
    IN  IF ~name.ok THEN Out(vm, name.kind)
        ELSE IF ~CanPop(vm) THEN Out(vm, "StackUnderflow")
        ELSE Out(set_global(Popped(vm), name.val, Top(vm)), "Continue")

\* what the module loader finds for a name and the compiler makes of it: the
\* module's chunk and the exports its source declares
ModuleInfo ==
    [ good |-> [chunk |-> M_GOOD, exports |-> {"x"}],
      bad |-> [chunk |-> M_BAD, exports |-> {"x"}],
      define |-> [chunk |-> M_DEFINE, exports |-> {"y"}] ]

\* VMError::ModuleError {module_name, ..}
ModuleError(vm, module_name) ==
    [vm |-> vm, st |-> "ModuleError", spawn |-> <<>>, module_name |-> module_name]

\* the VM load_module builds for the module: the parent's globals, the module's name
module_vm(vm, module_name) ==
    [VM_new EXCEPT !.globals = vm.globals, !.current_module = << module_name >>]

\* module_vm.run(), to its end
RECURSIVE run_module(_, _)

\* a load_module that leaves the module's name as the current module
load_module_finish_no_restore(vm, module_name, r) ==
    LET saved_stack_len == Len(vm.stack)
        saved_globals == vm.globals
        vm1 == [vm EXCEPT !.current_module = << module_name >>]
        vm2 == [vm1 EXCEPT !.stack = SubSeq(@, 1, saved_stack_len)]
        declared == ModuleInfo[module_name].exports \cap DOMAIN r.vm.globals
        exports == IF module_name \in DOMAIN r.vm.loaded_modules
                   THEN r.vm.loaded_modules[module_name]
                   ELSE [b \in declared |-> r.vm.globals[b]]
    IN  IF ~r.res.ok
        THEN ModuleError([vm2 EXCEPT !.globals = saved_globals], module_name)
        ELSE Out([vm2 EXCEPT !.loaded_modules = Put(@, module_name, exports)],
                 "Continue")

\* load_module once the module has run to r: the context is restored; a failure
\* restores the globals too and caches nothing, a success caches the exports
load_module_finish(vm, module_name, r) ==
    LET saved_module == vm.current_module
        saved_stack_len == Len(vm.stack)
        saved_globals == vm.globals
        vm1 == [vm EXCEPT !.current_module = << module_name >>]
        vm2 == [vm1 EXCEPT !.current_module = saved_module,
                           !.stack = SubSeq(@, 1, saved_stack_len)]
        declared == ModuleInfo[module_name].exports \cap DOMAIN r.vm.globals
        exports == IF module_name \in DOMAIN r.vm.loaded_modules
                   THEN r.vm.loaded_modules[module_name]
                   ELSE [b \in declared |-> r.vm.globals[b]]
    IN  IF ~r.res.ok
        THEN ModuleError([vm2 EXCEPT !.globals = saved_globals], module_name)
        ELSE Out([vm2 EXCEPT !.loaded_modules = Put(@, module_name, exports)],
                 "Continue")

\* load_module after the cache has been looked up: ask the loader, compile, run
load_module_fresh(vm, module_name) ==
    LET vm0 == [vm EXCEPT !.module_loader = Append(@, module_name)]
    IN  IF module_name \notin DOMAIN ModuleInfo THEN ModuleError(vm0, module_name)
        ELSE load_module_finish(
                 vm0, module_name,
                 run_module(run_push_main(module_vm(vm0, module_name),
                                          ModuleInfo[module_name].chunk),
                            MaxFuel))

\* a load_module that does not look into the cache
load_module_uncached(vm, module_name) == load_module_fresh(vm, module_name)

load_module(vm, module_name) ==
    IF module_name \in DOMAIN vm.loaded_modules THEN Out(vm, "Continue")
    ELSE load_module_fresh(vm, module_name)

op_LoadModule(vm, idx) ==
    LET name == get_constant_string(vm, idx)
    IN  IF ~name.ok THEN Out(vm, name.kind) ELSE load_module(vm, name.val)

op_BeginModule(vm, idx) ==
    LET name == get_constant_string(vm, idx)
    IN  IF ~name.ok THEN Out(vm, name.kind)
        ELSE Out([vm EXCEPT
                    !.module_stack = Append(@, IF vm.current_module = <<>> THEN ""
                                               ELSE vm.current_module[1]),
                    !.current_module = << name.val >>], "Continue")

op_EndModule(vm) ==
    IF vm.module_stack = <<>> THEN Out(vm, "Continue")
    ELSE Out([vm EXCEPT
                !.module_stack = Front(@),
                !.current_module = IF Last(vm.module_stack) = "" THEN <<>>
                                   ELSE << Last(vm.module_stack) >>], "Continue")

\* ExportBinding idx: under a current module, bind the name to the value on top of
\* the stack in that module's entry of loaded_modules, creating the entry if needed
op_ExportBinding(vm, idx) ==
    LET name == get_constant_string(vm, idx)
    IN  IF ~name.ok THEN Out(vm, name.kind)
        ELSE IF vm.current_module = <<>> THEN Out(vm, "Continue")
        ELSE IF ~CanPop(vm) THEN Out(vm, "StackUnderflow")
        ELSE LET m == vm.current_module[1]
                 exports == IF m \in DOMAIN vm.loaded_modules
                            THEN vm.loaded_modules[m] ELSE <<>>
             IN  Out([vm EXCEPT !.loaded_modules =
                                    Put(@, m, Put(exports, name.val, Top(vm)))],
                     "Continue")

\* GcAlloc, in execute_instruction itself: pop, gc_alloc, push
op_GcAlloc(vm) ==
    IF ~CanPop(vm) THEN Out(vm, "StackUnderflow")
    ELSE LET r == gc_alloc(Popped(vm), Top(vm))
         IN  IF r.ok THEN push(Popped(vm), r.val) ELSE Out(Popped(vm), r.kind)

\* GcDeref: pop a handle and push the value it holds; anything else is refused
op_GcDeref(vm) ==
    IF ~CanPop(vm) THEN Out(vm, "StackUnderflow")
    ELSE IF Top(vm).t = "GcHandle" THEN push(Popped(vm), Top(vm).value)
    ELSE Out(Popped(vm), "TypeError")

execute_instruction(vm, instruction, chunk_id) ==
    LET op == instruction.opcode
        arg == instruction.arg
    IN  CASE op = "PushInt0" -> push(vm, Integer(0))
          [] op = "PushInt1" -> push(vm, Integer(1))
          [] op = "PushInt2" -> push(vm, Integer(2))
          [] op = "PushNil" -> push(vm, Nil)
          [] op = "PushConst" -> op_PushConst(vm, chunk_id, arg)
          [] op = "Pop" -> op_Pop(vm)
          [] op = "Add" -> op_Add(vm)
          [] op = "Sub" -> op_Sub(vm)
          [] op = "LoadLocal0" -> op_LoadLocal(vm, 0)
          [] op = "LoadLocal1" -> op_LoadLocal(vm, 1)
          [] op = "LoadCaptured" -> op_LoadCaptured(vm, arg)
          [] op = "MakeList" -> op_MakeList(vm, arg)
          [] op = "Jump" -> op_Jump(vm, arg)
          [] op = "JumpIfNot" -> op_JumpIfNot(vm, arg)
          [] op = "Call" -> op_Call(vm, arg)
          [] op = "TailCall" -> op_TailCall(vm, arg)
          [] op = "Return" -> op_Return(vm)
          [] op = "Halt" -> Out(vm, "Halt")
          [] op = "Spawn" -> op_Spawn(vm)
          [] op = "Await" -> op_Await(vm)
          [] op = "Channel" -> op_Channel(vm)
          [] op = "Send" -> op_Send(vm)
          [] op = "Receive" -> op_Receive(vm)
          [] op = "Become" -> op_Become(vm)
          [] op = "ActorSend" -> op_ActorSend(vm)
          [] op = "GcAlloc" -> op_GcAlloc(vm)
          [] op = "GcDeref" -> op_GcDeref(vm)
          [] op = "TryStart" -> op_TryStart(vm, arg)
          [] op = "TryStartWithFinally" -> op_TryStartWithFinally(vm, arg)
          [] op = "TryEnd" -> op_TryEnd(vm)
          [] op = "Throw" -> op_Throw(vm)
          [] op = "FinallyStart" -> op_FinallyStart(vm)
          [] op = "FinallyEnd" -> op_FinallyEnd(vm)
          [] op = "MakeFunc" -> push(vm, Function(arg, <<>>))
          [] op = "MakeClosure" -> op_MakeClosure(vm, arg)
          [] op = "StoreGlobal" -> op_StoreGlobal(vm, arg)
          [] op = "LoadModule" -> op_LoadModule(vm, arg)
          [] op = "BeginModule" -> op_BeginModule(vm, arg)
          [] op = "EndModule" -> op_EndModule(vm)
          [] op = "ExportBinding" -> op_ExportBinding(vm, arg)
          [] op = "Nop" -> Out(vm, "Continue")
          [] OTHER -> Out(vm, "InvalidOpcode")

(* --------------------------- dispatch loop ----------------------------- *)
\* what one cycle of the dispatch loop leaves: the VM, whether the loop returned
\* (done) and with what, and the task handed to the scheduler
Cycle(vm, done, res, spawn) == [vm |-> vm, done |-> done, res |-> res, spawn |-> spawn]

CurrentInstr(vm) ==
    LET frame == Last(vm.call_stack)
    IN  ChunkAt(frame.chunk_id).instructions[frame.ip + 1]

IpInRange(vm) ==
    /\ vm.call_stack # <<>>
    /\ Last(vm.call_stack).ip < Len(ChunkAt(Last(vm.call_stack).chunk_id).instructions)

\* a dispatch loop that empties the operand stack when the main frame returns
run_inner_outcome_clear(o) ==
    CASE o.st = "Continue" -> Cycle(o.vm, FALSE, Ok(Nil), o.spawn)
      [] o.st \in {"Return", "Halt"} /\ Len(o.vm.call_stack) = 1 ->
           IF CanPop(o.vm)
           THEN Cycle([o.vm EXCEPT !.stack = <<>>], TRUE, Ok(Top(o.vm)), o.spawn)
           ELSE Cycle(o.vm, TRUE, Err("StackUnderflow"), o.spawn)
      [] o.st \in {"Return", "Halt"} ->
           Cycle([o.vm EXCEPT !.call_stack = IF @ = <<>> THEN @ ELSE Front(@)],
                 FALSE, Ok(Nil), o.spawn)
      [] OTHER -> Cycle(o.vm, TRUE, Err(o.st), o.spawn)

\* a dispatch loop that takes a Halt below the main frame for a Return: the
\* frame is dropped and the caller carries on
run_inner_outcome_halt_returns(o) ==
    CASE o.st = "Continue" -> Cycle(o.vm, FALSE, Ok(Nil), o.spawn)
      [] o.st \in {"Return", "Halt"} /\ Len(o.vm.call_stack) > 1 ->
           Cycle([o.vm EXCEPT !.call_stack = Front(@)], FALSE, Ok(Nil), o.spawn)
      [] o.st \in {"Return", "Halt"} ->
           IF CanPop(o.vm)
           THEN Cycle(Popped(o.vm), TRUE, Ok(Top(o.vm)), o.spawn)
           ELSE Cycle(o.vm, TRUE, Err("StackUnderflow"), o.spawn)
      [] OTHER -> Cycle(o.vm, TRUE, Err(o.st), o.spawn)

\* run_inner, after execute_instruction: what the loop does with its outcome
run_inner_outcome(o) ==
    CASE o.st = "Continue" -> Cycle(o.vm, FALSE, Ok(Nil), o.spawn)
      [] o.st = "Return" ->
           IF Len(o.vm.call_stack) = 1
           THEN IF CanPop(o.vm)
                THEN Cycle(Popped(o.vm), TRUE, Ok(Top(o.vm)), o.spawn)
                ELSE Cycle(o.vm, TRUE, Err("StackUnderflow"), o.spawn)
           ELSE Cycle([o.vm EXCEPT !.call_stack = IF @ = <<>> THEN @ ELSE Front(@)],
                      FALSE, Ok(Nil), o.spawn)
      [] o.st = "Halt" ->
           IF CanPop(o.vm)
           THEN Cycle(Popped(o.vm), TRUE, Ok(Top(o.vm)), o.spawn)
           ELSE Cycle(o.vm, TRUE, Err("StackUnderflow"), o.spawn)
      [] OTHER -> Cycle(o.vm, TRUE, Err(o.st), o.spawn)

\* set_security_manager: the manager's context holds the instructions counted so
\* far and the budget of its policy
set_security_manager(vm, max_instructions) ==
    [vm EXCEPT !.security_manager =
                   << [instructions |-> 0, max_instructions |-> max_instructions] >>]

\* security.context.track_instruction(): one more instruction, refused when the
\* budget is used up
track_instruction(vm) ==
    IF vm.security_manager[1].instructions >= vm.security_manager[1].max_instructions
    THEN Out(vm, "ResourceLimitExceeded")
    ELSE Out([vm EXCEPT !.security_manager[1].instructions = @ + 1], "Continue")

\* the security checks of the dispatch loop, made only with a manager installed
security_checked(t, instruction) ==
    IF IsErr(t.st) THEN t
    ELSE IF instruction.opcode = "Call"
            /\ Len(t.vm.call_stack) >= t.vm.max_call_depth
    THEN Out(t.vm, "CallStackOverflow")
    ELSE t

security_checks(vm, instruction) ==
    IF vm.security_manager = <<>> THEN Out(vm, "Continue")
    ELSE security_checked(track_instruction(vm), instruction)

\* run_inner from the security checks on
run_inner_secured(s, instruction) ==
    IF IsErr(s.st) THEN Cycle(s.vm, TRUE, Err(s.st), <<>>)
    ELSE run_inner_outcome(
             execute_instruction(
                 [s.vm EXCEPT !.call_stack[Len(s.vm.call_stack)].ip = @ + 1,
                              !.instruction_count = @ + 1],
                 instruction, Last(s.vm.call_stack).chunk_id))

\* a dispatch loop that takes the end of a chunk for a return: the frame is
\* dropped and the loop carries on
run_inner_implicit_return(vm) ==
    IF vm.call_stack = <<>> THEN Cycle(vm, TRUE, Err("StackUnderflow"), <<>>)
    ELSE IF ~IpInRange(vm)
    THEN Cycle([vm EXCEPT !.call_stack = Front(@)], FALSE, Ok(Nil), <<>>)
    ELSE run_inner_secured(security_checks(vm, CurrentInstr(vm)), CurrentInstr(vm))

\* one cycle of run_inner (no debugger attached)
run_inner(vm) ==
    IF vm.call_stack = <<>> THEN Cycle(vm, TRUE, Err("StackUnderflow"), <<>>)
    ELSE IF ~IpInRange(vm) THEN Cycle(vm, TRUE, Err("InvalidJumpTarget"), <<>>)
    ELSE run_inner_secured(security_checks(vm, CurrentInstr(vm)), CurrentInstr(vm))

\* Option<StackTrace>: None, or Some(trace)
None == <<>>
Some(x) == << x >>

\* the stack_trace with which an error leaves run_inner: the errors the loop
\* builds are built with None; an error of an instruction or of the security
\* manager passes through `?` as its maker built it, taken to be with a trace
run_inner_stack_trace_of(o) ==
    CASE o.st = "Return" /\ Len(o.vm.call_stack) = 1 /\ ~CanPop(o.vm) -> {None}
      [] o.st = "Halt" /\ ~CanPop(o.vm) -> {None}
      [] IsErr(o.st) -> {Some("trace")}
      [] OTHER -> {}

run_inner_secured_stack_trace(s, instruction) ==
    IF s.st = "CallStackOverflow" THEN {None}
    ELSE IF IsErr(s.st) THEN {Some("trace")}
    ELSE run_inner_stack_trace_of(
             execute_instruction(
                 [s.vm EXCEPT !.call_stack[Len(s.vm.call_stack)].ip = @ + 1,
                              !.instruction_count = @ + 1],
                 instruction, Last(s.vm.call_stack).chunk_id))

\* the stack_trace of the error with which this cycle of run_inner ends, if it
\* ends with one
run_inner_stack_trace(vm) ==
    IF vm.call_stack = <<>> THEN {None}
    ELSE IF ~IpInRange(vm) THEN {None}
    ELSE run_inner_secured_stack_trace(security_checks(vm, CurrentInstr(vm)),
                                       CurrentInstr(vm))

\* module_vm.run(): the loop until it returns
run_module_outcome(c, fuel) ==
    IF c.done THEN [vm |-> c.vm, res |-> c.res] ELSE run_module(c.vm, fuel - 1)

run_module(vm, fuel) ==
    IF fuel = 0 THEN [vm |-> vm, res |-> Err("OutOfFuel")]
    ELSE run_module_outcome(run_inner(vm), fuel)

\* call_value, first half: pop the arguments and the function, push the arguments
\* back and push the frame (no depth check here)
call_value_enter(vm, arg_count) ==
    IF Len(vm.stack) < arg_count + 1
    THEN Out([vm EXCEPT !.stack = <<>>], "StackUnderflow")
    ELSE LET n == Len(vm.stack)
             args == SubSeq(vm.stack, n - arg_count + 1, n)
             func == vm.stack[n - arg_count]
             vm1 == [vm EXCEPT !.stack = SubSeq(@, 1, n - arg_count - 1)]
         IN  IF func.t = "Function"
             THEN Out([vm1 EXCEPT !.stack = @ \o args,
                                  !.call_stack = Append(@, CallFrame(func.chunk_id, 0,
                                                        Len(vm1.stack), func.env))],
                      "Continue")
             ELSE Out(vm1, "TypeError")

\* call_value, second half: the loop that runs until the frame pushed above is gone
RECURSIVE call_value_loop(_, _, _)
\* what the loop does with the outcome of execute_instruction
call_value_outcome(o, initial_call_depth, fuel) ==
    CASE o.st = "Continue" -> call_value_loop(o.vm, initial_call_depth, fuel - 1)
      [] o.st = "Return" ->
           IF Len(o.vm.call_stack) = initial_call_depth
           THEN Out([o.vm EXCEPT !.call_stack = Front(@)], "Continue")
           ELSE call_value_loop([o.vm EXCEPT !.call_stack = Front(@)],
                                initial_call_depth, fuel - 1)
      [] o.st = "Halt" -> Out(o.vm, "RuntimeError")
      [] OTHER -> o

call_value_loop(vm, initial_call_depth, fuel) ==
    IF Len(vm.call_stack) < initial_call_depth THEN Out(vm, "Continue")
    ELSE IF fuel = 0 THEN Out(vm, "OutOfFuel")
    ELSE IF ~IpInRange(vm) THEN Out(vm, "InvalidJumpTarget")
    ELSE call_value_outcome(
             execute_instruction(
                 [vm EXCEPT !.call_stack[Len(vm.call_stack)].ip = @ + 1],
                 CurrentInstr(vm), Last(vm.call_stack).chunk_id),
             initial_call_depth, fuel)

(* ------------------- calls of functions and natives -------------------- *)
\* the closures of the native functions the embedder registers: keep returns its
\* last argument (Nil when it is given none), every other one fails
native_apply(name, args) ==
    CASE name = "keep" -> IF args = <<>> THEN Ok(Nil) ELSE Ok(Last(args))
      [] OTHER -> Err("native")

\* an outcome together with the invocations of native closures made on the way
NativeOut(vm, st, called) == [vm |-> vm, st |-> st, spawn |-> <<>>, called |-> called]

\* the native arm of call_value: arity first, then the closure, then the push
call_value_native(vm1, func, args) ==
    IF Len(args) # func.arity THEN NativeOut(vm1, "RuntimeError", <<>>)
    ELSE LET r == native_apply(func.name, args)
             invoked == << [name |-> func.name, args |-> args] >>
         IN  IF ~r.ok THEN NativeOut(vm1, "RuntimeError", invoked)
             ELSE NativeOut(push(vm1, r.val).vm, push(vm1, r.val).st, invoked)

\* call_value(arg_count), from its pops to its return
call_value(vm, arg_count) ==
    IF Len(vm.stack) < arg_count + 1
    THEN NativeOut([vm EXCEPT !.stack = <<>>], "StackUnderflow", <<>>)
    ELSE LET n == Len(vm.stack)
             args == SubSeq(vm.stack, n - arg_count + 1, n)
             func == vm.stack[n - arg_count]
             vm1 == [vm EXCEPT !.stack = SubSeq(@, 1, n - arg_count - 1)]
         IN  CASE func.t = "Function" ->
                    \* the frame is pushed, then the loop runs until it is gone
                    LET e == call_value_enter(vm, arg_count)
                        o == IF IsErr(e.st) THEN e
                             ELSE call_value_loop(e.vm, Len(e.vm.call_stack), MaxFuel)
                    IN  NativeOut(o.vm, o.st, <<>>)
               [] func.t = "NativeFunction" -> call_value_native(vm1, func, args)
               [] OTHER -> NativeOut(vm1, "TypeError", <<>>)

\* the loop of call_handler_function over the handler's frame
RECURSIVE call_handler_loop(_, _, _)
call_handler_outcome(o, handler_chunk_id, fuel) ==
    CASE IsErr(o.st) -> [vm |-> o.vm, res |-> Err(o.st)]
      [] o.st = "Continue" -> call_handler_loop(o.vm, handler_chunk_id, fuel - 1)
      [] o.st = "Return" ->
           IF CanPop(o.vm) THEN [vm |-> Popped(o.vm), res |-> Ok(Top(o.vm))]
           ELSE [vm |-> o.vm, res |-> Err("StackUnderflow")]
      [] OTHER -> \* Halt
           IF Len(o.vm.stack) > Last(o.vm.call_stack).stack_base
           THEN [vm |-> [o.vm EXCEPT
                           !.stack = SubSeq(@, 1, Last(o.vm.call_stack).stack_base),
                           !.call_stack = Front(@)],
                 res |-> Ok(Top(o.vm))]
           ELSE [vm |-> o.vm, res |-> Err("RuntimeError")]

call_handler_loop(vm, handler_chunk_id, fuel) ==
    IF vm.call_stack = <<>> THEN [vm |-> vm, res |-> Err("RuntimeError")]
    ELSE IF Last(vm.call_stack).chunk_id # handler_chunk_id
    THEN IF CanPop(vm) THEN [vm |-> Popped(vm), res |-> Ok(Top(vm))]
         ELSE [vm |-> vm, res |-> Err("StackUnderflow")]
    ELSE IF fuel = 0 THEN [vm |-> vm, res |-> Err("OutOfFuel")]
    ELSE IF ~IpInRange(vm) THEN [vm |-> vm, res |-> Err("RuntimeError")]
    ELSE call_handler_outcome(
             execute_instruction(
                 [vm EXCEPT !.call_stack[Len(vm.call_stack)].ip = @ + 1],
                 CurrentInstr(vm), Last(vm.call_stack).chunk_id),
             handler_chunk_id, fuel)

\* the arguments are pushed one at a time, the first refusal ends it
RECURSIVE push_all(_, _)
push_all(vm, values) ==
    IF values = <<>> THEN Out(vm, "Continue")
    ELSE IF IsErr(push(vm, Head(values)).st) THEN push(vm, Head(values))
    ELSE push_all(push(vm, Head(values)).vm, Tail(values))

\* call_handler_function(handler, args)
call_handler_function(vm, handler, args) ==
    CASE handler.t = "Function" ->
           LET call_frame == CallFrame(handler.chunk_id, 0, Len(vm.stack), handler.env)
               o == push_all(vm, args)
           IN  IF IsErr(o.st)
               THEN [vm |-> o.vm, res |-> Err(o.st), called |-> <<>>]
               ELSE LET r == call_handler_loop(
                                 [o.vm EXCEPT !.call_stack = Append(@, call_frame)],
                                 handler.chunk_id, MaxFuel)
                    IN  [vm |-> r.vm, res |-> r.res, called |-> <<>>]
      [] handler.t = "NativeFunction" ->
           IF Len(args) # handler.arity
           THEN [vm |-> vm, res |-> Err("RuntimeError"), called |-> <<>>]
           ELSE LET r == native_apply(handler.name, args)
                IN  [vm |-> vm,
                     res |-> IF r.ok THEN r ELSE Err("RuntimeError"),
                     called |-> << [name |-> handler.name, args |-> args] >>]
      [] OTHER -> [vm |-> vm, res |-> Err("TypeError"), called |-> <<>>]

\* call_native_function(native_func, args): the global of that name is called
call_native_function(vm, native_func, args) ==
    IF native_func \in DOMAIN vm.globals
    THEN LET func_value == vm.globals[native_func]
         IN  IF func_value.t = "NativeFunction"
             THEN LET r == native_apply(func_value.name, args)
                      invoked == << [name |-> func_value.name, args |-> args] >>
                  IN  IF r.ok
                      THEN NativeOut(push(vm, r.val).vm, push(vm, r.val).st, invoked)
                      ELSE NativeOut(vm, "RuntimeError", invoked)
             ELSE NativeOut(vm, "TypeError", <<>>)
    ELSE NativeOut(vm, "UnknownIdentifier", <<>>)

(* ----------------------------- the system ------------------------------ *)
VARIABLES
    machines,    \* <<parent VM, spawned task VMs ...>>, each with its run state
    main_chunk,  \* Bytecode.main_chunk
    scenario,    \* what the embedder does with the parent VM
    host,        \* the embedder's calls in progress (process_actor_messages)
    log          \* history of the embedder's calls (for the properties only)

vars == <<machines, main_chunk, scenario, host, log>>

\* history kept per machine, for the properties only
Ghost0 ==
    [ last |-> "none", pre_depth |-> 0, pre_stack |-> <<>>,
      handlers |-> <<>>, throw_handler |-> <<>>, thrown |-> <<>>,
      finally_runs |-> 0, tail |-> <<>>, tasks_done_at_receive |-> FALSE ]

Machine(vm, phase, tx) ==
    [vm |-> vm, phase |-> phase, result |-> Ok(Nil), tx |-> tx, g |-> Ghost0]

Parent == machines[1]
TaskIds == 2..Len(machines)
AllTasksDone == \A i \in TaskIds : machines[i].phase \in {"ok", "err"}

\* the history after the machine executes its current instruction
GhostStep(m, tasksDone) ==
    LET vm == m.vm
        g == m.g
        instr == CurrentInstr(vm)
        op == instr.opcode
        depth == Len(vm.call_stack)
        installed == [catch_ip |-> instr.arg, stack_depth |-> Len(vm.stack),
                      call_frame |-> depth]
    IN  [ g EXCEPT
            !.last = op,
            !.pre_depth = depth,
            !.pre_stack = vm.stack,
            !.handlers = CASE op \in {"TryStart", "TryStartWithFinally"} ->
                                Append(@, installed)
                           [] op \in {"TryEnd", "Throw"} /\ @ # <<>> -> Front(@)
                           [] OTHER -> @,
            !.throw_handler = IF op = "Throw" /\ g.handlers # <<>>
                              THEN << Last(g.handlers) >> ELSE <<>>,
            !.thrown = IF op = "Throw" /\ CanPop(vm) THEN << Top(vm) >> ELSE @,
            !.finally_runs = IF op = "FinallyStart" THEN @ + 1 ELSE @,
            !.tail = IF op = "TailCall" /\ Len(vm.stack) > instr.arg
                     THEN << [func |-> vm.stack[Len(vm.stack) - instr.arg],
                              args |-> SubSeq(vm.stack, Len(vm.stack) - instr.arg + 1,
                                              Len(vm.stack)),
                              stack_base |-> Last(vm.call_stack).stack_base] >>
                     ELSE <<>>,
            !.tasks_done_at_receive = IF op = "Receive" THEN tasksDone ELSE @ ]

\* tx.send(result): the result reaches the receiver if the owner still holds it
Deliver(ms, tx, result) ==
    IF tx.promise_id \in DOMAIN ms[tx.owner].vm.promises
    THEN [ms EXCEPT ![tx.owner].vm.promises[tx.promise_id] = SlotReady(result)]
    ELSE ms

\* tokio::spawn: each task handed to the scheduler becomes a machine of its own
Scheduled(ms, owner, spawn) ==
    IF spawn = <<>> THEN ms
    ELSE Append(ms, Machine(task_vm(spawn[1]), "running",
                            << [owner |-> owner, promise_id |-> spawn[1].promise_id] >>))

\* a dispatch cycle that also writes the instruction counter of every other VM
Stepped_shared(i, c) ==
    LET m == machines[i]
        m1 == [m EXCEPT !.vm = c.vm,
                        !.g = IF IpInRange(m.vm) THEN GhostStep(m, AllTasksDone) ELSE @,
                        !.phase = IF ~c.done THEN "running"
                                  ELSE IF c.res.ok THEN "ok" ELSE "err",
                        !.result = c.res]
    IN  [j \in DOMAIN machines |->
            IF j = i THEN m1
            ELSE [machines[j] EXCEPT !.vm.instruction_count = c.vm.instruction_count]]

\* one dispatch cycle of machine i, c being what run_inner leaves
Stepped(i, c) ==
    LET m == machines[i]
        m1 == [m EXCEPT !.vm = c.vm,
                        !.g = IF IpInRange(m.vm) THEN GhostStep(m, AllTasksDone) ELSE @,
                        !.phase = IF ~c.done THEN "running"
                                  ELSE IF c.res.ok THEN "ok" ELSE "err",
                        !.result = c.res]
        ms1 == Scheduled([machines EXCEPT ![i] = m1], i, c.spawn)
    IN  IF c.done /\ m.tx # <<>> THEN Deliver(ms1, m.tx[1], c.res) ELSE ms1

StepMachine(i) ==
    /\ machines[i].phase = "running"
    /\ \E c \in {run_inner(machines[i].vm)} :
          /\ c.spawn # <<>> => Len(machines) < MaxMachines
          /\ machines' = Stepped(i, c)

(* ------------- process_actor_messages, one step at a time -------------- *)
\* an entry that leaves the actor in the map while it is processed
process_actor_messages_enter_keep(vm, actor_id) ==
    IF actor_id \in DOMAIN vm.actors
    THEN [vm |-> [vm EXCEPT !.current_actor = {actor_id}],
          res |-> Ok(Nil), actor |-> << vm.actors[actor_id] >>]
    ELSE [vm |-> vm, res |-> Err("UnknownIdentifier"), actor |-> <<>>]

\* the actor is taken out of the map and made the current actor
process_actor_messages_enter(vm, actor_id) ==
    IF actor_id \in DOMAIN vm.actors
    THEN [vm |-> [vm EXCEPT !.actors = Del(@, actor_id),
                            !.current_actor = {actor_id}],
          res |-> Ok(Nil), actor |-> << vm.actors[actor_id] >>]
    ELSE [vm |-> vm, res |-> Err("UnknownIdentifier"), actor |-> <<>>]

\* a mailbox that hands out its newest message first
mailbox_try_recv_newest(actor) ==
    [actor |-> [actor EXCEPT !.mailbox = Front(@)], message |-> Last(actor.mailbox)]

\* actor.mailbox.try_recv()
mailbox_try_recv(actor) ==
    [actor |-> [actor EXCEPT !.mailbox = Tail(@)], message |-> Head(actor.mailbox)]

\* the body of the while loop up to the entry into the handler's frame
process_actor_messages_call(vm, actor, message) ==
    LET vm0 == [vm EXCEPT !.current_actor_message = << message >>]
        o1 == push(vm0, actor.handler)
        o2 == IF IsErr(o1.st) THEN o1 ELSE push(o1.vm, actor.state)
        o3 == IF IsErr(o2.st) THEN o2 ELSE push(o2.vm, message)
    IN  IF IsErr(o3.st) THEN o3 ELSE call_value_enter(o3.vm, 2)

\* the rest of the body: the handler runs to its return, its result becomes the
\* state, the current message is cleared
process_actor_messages_stored(o, actor) ==
    IF IsErr(o.st) THEN [vm |-> o.vm, st |-> o.st, actor |-> actor]
    ELSE IF ~CanPop(o.vm)
    THEN [vm |-> o.vm, st |-> "StackUnderflow", actor |-> actor]
    ELSE [vm |-> [Popped(o.vm) EXCEPT !.current_actor_message = <<>>],
          st |-> "Continue",
          actor |-> [actor EXCEPT !.state = Top(o.vm)]]

process_actor_messages_store(vm, actor, initial_call_depth) ==
    process_actor_messages_stored(call_value_loop(vm, initial_call_depth, MaxFuel), actor)

\* after the loop: no current actor, the actor back in the map
process_actor_messages_exit(vm, actor_id, actor) ==
    [vm EXCEPT !.current_actor = {}, !.actors = Put(@, actor_id, actor)]

\* process_actor_messages(actor_id), from the removal of the actor to its return
RECURSIVE process_actor_messages_drain(_, _, _)
process_actor_messages_next(r, actor_id) ==
    IF IsErr(r.st) THEN Out(r.vm, r.st)
    ELSE process_actor_messages_drain(r.vm, actor_id, r.actor)

process_actor_messages_drain(vm, actor_id, actor) ==
    IF actor.mailbox = <<>>
    THEN Out(process_actor_messages_exit(vm, actor_id, actor), "Continue")
    ELSE LET m == mailbox_try_recv(actor)
             vm0 == [vm EXCEPT !.current_actor_message = << m.message >>]
             o == push_all(vm0, << m.actor.handler, m.actor.state, m.message >>)
         IN  process_actor_messages_next(
                 process_actor_messages_stored(
                     IF IsErr(o.st) THEN o ELSE call_value(o.vm, 2), m.actor),
                 actor_id)

process_actor_messages(vm, actor_id) ==
    LET e == process_actor_messages_enter(vm, actor_id)
    IN  IF e.res.ok THEN process_actor_messages_drain(e.vm, actor_id, e.actor[1])
        ELSE Out(e.vm, e.res.kind)

\* the embedder's calls in progress, innermost last
ActorCall(actor_id, actor) ==
    [kind |-> "actor", actor_id |-> actor_id, actor |-> actor, phase |-> "loop",
     initial_call_depth |-> 0, remaining |-> {}]
AllCall(actor_ids) ==
    [kind |-> "all", actor_id |-> 0, actor |-> ActorRec(Nil, Nil), phase |-> "loop",
     initial_call_depth |-> 0, remaining |-> actor_ids]

(* --------------------------- the embedder ------------------------------ *)
Log0 ==
    [ calls |-> 0, awaits |-> <<>>, awaited |-> {},
      sent |-> <<>>, received |-> <<>>,
      actor_init |-> <<>>, actor_sent |-> <<>>,
      traces |-> << <<>>, <<>> >>,
      closure |-> [op |-> "none", stack |-> <<>>, packed |-> 0, slot |-> 0],
      module |-> [op |-> "none", name |-> "", res |-> "none", err_module |-> "",
                  cached |-> FALSE],
      loaded_ok |-> {},
      executions |-> <<>>, errors |-> 0, was_hot |-> {},
      api |-> [op |-> "none", id |-> 0, value |-> Nil, res |-> Ok(Nil)],
      native |-> [op |-> "none", func |-> <<>>, args |-> <<>>, res |-> Ok(Nil),
                  called |-> <<>>] ]

Machines0 == << Machine(VM_new, "new", <<>>) >>

\* a program of the image is run
InitRun ==
    /\ scenario = "run"
    /\ main_chunk \in MainChunks
    /\ machines = Machines0
    /\ host = <<>>
    /\ log = Log0

\* the embedder calls the VM's API itself: promises, channels or actors (for the
\* actors it allows one frame of call depth: the handlers call nothing)
InitApi(s) ==
    /\ scenario = s
    /\ main_chunk = MAIN_SPAWN
    /\ machines = IF s = "actor"
                  THEN [Machines0 EXCEPT ![1].vm = set_resource_limits(@, 1)]
                  ELSE Machines0
    /\ host = <<>>
    /\ log = Log0


\* run(): the embedder starts the program
Run ==
    /\ scenario = "run"
    /\ Parent.phase = "new"
    /\ machines' = [machines EXCEPT ![1].vm = run_push_main(@, main_chunk),
                                    ![1].phase = "running"]
    /\ UNCHANGED <<main_chunk, scenario, host, log>>

ParentStep ==
    /\ StepMachine(1)
    /\ UNCHANGED <<main_chunk, scenario, host, log>>

TaskStep ==
    /\ \E i \in TaskIds : StepMachine(i)
    /\ UNCHANGED <<main_chunk, scenario, host, log>>

\* values the embedder passes to the API
SpawnArgs == {Function(F_ADD, <<>>), Function(F_ONE, <<>>)}
Payloads == {Nil, Integer(1), Integer(2)}
Handlers == {Function(F_FOLD, <<>>), Function(F_BECOME, <<>>), Function(F_FAIL, <<>>),
             Procedure, Nil}
InitialStates == {Integer(1)}
Messages == {Integer(1), Integer(2)}

(* ---- promises driven by the embedder ---- *)
ApiSpawn ==
    /\ scenario = "promise"
    /\ Len(machines) < MaxMachines
    /\ \E func \in SpawnArgs :
          LET o == spawn_task(Parent.vm, func)
          IN  machines' = Scheduled([machines EXCEPT ![1].vm = o.vm], 1, o.spawn)
    /\ UNCHANGED <<main_chunk, scenario, host, log>>

ApiAwait ==
    /\ scenario = "promise"
    /\ log.calls < MaxCalls
    /\ \E promise_id \in 1..MaxMachines :
          LET r == await_promise(Parent.vm, promise_id)
          IN  /\ machines' = [machines EXCEPT ![1].vm = r.vm]
              /\ log' = [log EXCEPT
                           !.calls = @ + 1,
                           !.awaited = IF promise_id < next_promise_id(Parent.vm)
                                       THEN @ \cup {promise_id} ELSE @,
                           !.awaits = Append(@,
                               [id |-> promise_id, res |-> r.res,
                                again |-> promise_id \in log.awaited,
                                allocated |-> promise_id < next_promise_id(Parent.vm),
                                ready |-> /\ promise_id \in DOMAIN Parent.vm.promises
                                          /\ Parent.vm.promises[promise_id].ready])]
    /\ UNCHANGED <<main_chunk, scenario, host>>

(* ---- channels driven by the embedder ---- *)
ApiCreateChannel ==
    /\ scenario = "channel"
    /\ next_channel_id(Parent.vm) <= MaxChannels
    /\ LET r == create_channel(Parent.vm)
       IN  /\ machines' = [machines EXCEPT ![1].vm = r.vm]
           /\ log' = [log EXCEPT !.sent = Put(@, r.id, <<>>),
                                 !.received = Put(@, r.id, <<>>)]
    /\ UNCHANGED <<main_chunk, scenario, host>>

ApiSend ==
    /\ scenario = "channel"
    /\ log.calls < MaxCalls
    /\ \E channel_id \in 1..(MaxChannels + 1), value \in Payloads :
          LET o == send_to_channel(Parent.vm, channel_id, value)
          IN  /\ machines' = [machines EXCEPT ![1].vm = o.vm]
              /\ log' = [log EXCEPT
                           !.calls = @ + 1,
                           !.sent = IF IsErr(o.st) THEN @
                                    ELSE [@ EXCEPT ![channel_id] = Append(@, value)]]
    /\ UNCHANGED <<main_chunk, scenario, host>>

ApiReceive ==
    /\ scenario = "channel"
    /\ log.calls < MaxCalls
    /\ \E channel_id \in 1..(MaxChannels + 1) :
          LET r == receive_from_channel(Parent.vm, channel_id)
          IN  /\ machines' = [machines EXCEPT ![1].vm = r.vm]
              /\ log' = [log EXCEPT
                           !.calls = @ + 1,
                           !.received = IF r.fromBuffer
                                        THEN [@ EXCEPT ![channel_id] = Append(@, r.res.val)]
                                        ELSE @]
    /\ UNCHANGED <<main_chunk, scenario, host>>

(* ---- actors driven by the embedder ---- *)
\* a call of process_actor_messages can begin when the embedder holds the VM, or
\* from inside a running handler
CanEnter ==
    IF host = <<>> THEN TRUE
    ELSE Last(host).kind = "actor" /\ Last(host).phase = "handling"

\* an error leaves through every call in progress (each one is called with `?`)
Unwound(vm) ==
    /\ machines' = [machines EXCEPT ![1].vm = vm]
    /\ host' = <<>>

\* the call process_actor_messages(actor_id), made with `outer` the calls that
\* stay in progress below it
Entered(outer, actor_id) ==
    LET r == process_actor_messages_enter(Parent.vm, actor_id)
    IN  IF r.res.ok
        THEN /\ machines' = [machines EXCEPT ![1].vm = r.vm]
             /\ host' = Append(outer, ActorCall(actor_id, r.actor[1]))
        ELSE Unwound(r.vm)

ApiCreateActor ==
    /\ scenario = "actor"
    /\ host = <<>>
    /\ next_actor_id(Parent.vm) <= MaxActors
    /\ \E initial_state \in InitialStates, handler \in Handlers :
          LET r == create_actor(Parent.vm, initial_state, handler)
          IN  /\ machines' = [machines EXCEPT ![1].vm = r.vm]
              /\ log' = IF r.res.ok
                        THEN [log EXCEPT
                                !.actor_init = Put(@, r.res.val.id, initial_state),
                                !.actor_sent = Put(@, r.res.val.id, <<>>)]
                        ELSE log
    /\ UNCHANGED <<main_chunk, scenario, host>>

ApiSendToActor ==
    /\ scenario = "actor"
    /\ host = <<>>
    /\ log.calls < MaxMessages
    /\ \E actor_id \in 1..MaxActors, message \in Messages :
          LET o == send_to_actor(Parent.vm, actor_id, message)
          IN  /\ machines' = [machines EXCEPT ![1].vm = o.vm]
              /\ log' = [log EXCEPT
                           !.calls = @ + 1,
                           !.actor_sent = IF IsErr(o.st) THEN @
                                          ELSE [@ EXCEPT ![actor_id] = Append(@, message)]]
    /\ UNCHANGED <<main_chunk, scenario, host>>

ProcessBegin ==
    /\ scenario = "actor"
    /\ CanEnter
    /\ \E actor_id \in 1..MaxActors : Entered(host, actor_id)
    /\ UNCHANGED <<main_chunk, scenario, log>>

HandlerStart ==
    /\ scenario = "actor"
    /\ host # <<>>
    /\ Last(host).kind = "actor" /\ Last(host).phase = "loop"
    /\ Last(host).actor.mailbox # <<>>
    /\ \E r \in {mailbox_try_recv(Last(host).actor)} :
       \E o \in {process_actor_messages_call(Parent.vm, r.actor, r.message)} :
           IF IsErr(o.st) THEN Unwound(o.vm)
           ELSE /\ machines' = [machines EXCEPT ![1].vm = o.vm]
                /\ host' = [host EXCEPT ![Len(host)].actor = r.actor,
                                        ![Len(host)].phase = "handling",
                                        ![Len(host)].initial_call_depth =
                                            Len(o.vm.call_stack)]
    /\ UNCHANGED <<main_chunk, scenario, log>>

HandlerFinish ==
    /\ scenario = "actor"
    /\ host # <<>>
    /\ Last(host).kind = "actor" /\ Last(host).phase = "handling"
    /\ \E r \in {process_actor_messages_store(Parent.vm, Last(host).actor,
                                                Last(host).initial_call_depth)} :
           IF IsErr(r.st) THEN Unwound(r.vm)
           ELSE /\ machines' = [machines EXCEPT ![1].vm = r.vm]
                /\ host' = [host EXCEPT ![Len(host)].actor = r.actor,
                                        ![Len(host)].phase = "loop"]
    /\ UNCHANGED <<main_chunk, scenario, log>>

ProcessEnd ==
    /\ scenario = "actor"
    /\ host # <<>>
    /\ Last(host).kind = "actor" /\ Last(host).phase = "loop"
    /\ Last(host).actor.mailbox = <<>>
    /\ machines' = [machines EXCEPT
                      ![1].vm = process_actor_messages_exit(@, Last(host).actor_id,
                                                            Last(host).actor)]
    /\ host' = Front(host)
    /\ UNCHANGED <<main_chunk, scenario, log>>

\* process_all_actor_messages, the embedder's periodic call: the ids are collected
\* first, then each is processed
ProcessAllBegin ==
    /\ scenario = "actor"
    /\ host = <<>>
    /\ host' = Append(host, AllCall(DOMAIN Parent.vm.actors))
    /\ UNCHANGED <<machines, main_chunk, scenario, log>>

ProcessAllNext ==
    /\ scenario = "actor"
    /\ host # <<>>
    /\ Last(host).kind = "all"
    /\ \E actor_id \in Last(host).remaining :
          Entered([host EXCEPT ![Len(host)].remaining = @ \ {actor_id}], actor_id)
    /\ UNCHANGED <<main_chunk, scenario, log>>

ProcessAllEnd ==
    /\ scenario = "actor"
    /\ host # <<>>
    /\ Last(host).kind = "all" /\ Last(host).remaining = {}
    /\ host' = Front(host)
    /\ UNCHANGED <<machines, main_chunk, scenario, log>>

(* ----------------- the operand stack close to its capacity -------------- *)
\* how far below STACK_SIZE the stack is followed
StackSlack == 3

StackValues == {Nil, Integer(0), Integer(1), Integer(2)}

\* a program has filled the operand stack up to StackSlack values below STACK_SIZE
InitStack ==
    /\ scenario = "stack"
    /\ main_chunk = MAIN_SPAWN
    /\ machines = [Machines0 EXCEPT
                     ![1].vm.stack = [k \in 1..(STACK_SIZE - StackSlack) |-> Nil]]
    /\ host = <<>>
    /\ log = Log0

\* VM::push(value)
ApiPush ==
    /\ scenario = "stack"
    /\ \E value \in StackValues : \E o \in {push(Parent.vm, value)} :
         machines' = [machines EXCEPT
                        ![1].vm = o.vm,
                        ![1].result = IF IsErr(o.st) THEN Err(o.st) ELSE Ok(Nil),
                        ![1].g.last = "push",
                        ![1].g.pre_stack = Parent.vm.stack]
    /\ UNCHANGED <<main_chunk, scenario, host, log>>

\* VM::pop()
ApiPop ==
    /\ scenario = "stack"
    /\ Len(Parent.vm.stack) > STACK_SIZE - StackSlack
    /\ CanPop(Parent.vm)
    /\ machines' = [machines EXCEPT
                      ![1].vm = Popped(@),
                      ![1].result = Ok(Top(Parent.vm)),
                      ![1].g.last = "pop",
                      ![1].g.pre_stack = Parent.vm.stack]
    /\ UNCHANGED <<main_chunk, scenario, host, log>>

NextStack ==
    \/ ApiPush
    \/ ApiPop

(* ------------- two VMs constructed over the same image ------------------ *)
\* the programs of the image that use no spawn, channel, actor, effect, module or
\* GC opcode
PureChunks == {MAIN_FIN_NORMAL, MAIN_FIN_THROW, MAIN_CATCH, MAIN_THROW, MAIN_TAIL,
               MAIN_HALT}

\* what an observer sees of a VM between two instructions
Observed(m) == [vm |-> m.vm, phase |-> m.phase, result |-> m.result]

\* VM::new(bytecode) twice, over one image
InitPair ==
    /\ scenario = "pair"
    /\ main_chunk \in PureChunks
    /\ machines = << Machine(VM_new, "new", <<>>), Machine(VM_new, "new", <<>>) >>
    /\ host = <<>>
    /\ log = Log0

\* run() on one of the two VMs
PairRun ==
    /\ scenario = "pair"
    /\ \E i \in DOMAIN machines :
         /\ machines[i].phase = "new"
         /\ machines' = [machines EXCEPT ![i].vm = run_push_main(@, main_chunk),
                                         ![i].phase = "running"]
         /\ log' = [log EXCEPT !.traces[i] = Append(@, Observed(machines'[i]))]
    /\ UNCHANGED <<main_chunk, scenario, host>>

\* one of the two VMs executes its next instruction
PairStep ==
    /\ scenario = "pair"
    /\ \E i \in DOMAIN machines :
         /\ StepMachine(i)
         /\ log' = [log EXCEPT !.traces[i] = Append(@, Observed(machines'[i]))]
    /\ UNCHANGED <<main_chunk, scenario, host>>

NextPair ==
    \/ PairRun
    \/ PairStep

(* ---------------------- MakeClosure and its captures -------------------- *)
\* most values a closure captures, and most values on the stack before it
MaxCaptures == 3

ClosureValues == {Nil, Integer(1), Integer(2)}
ClosureChunks == {F_SEND, F_ADD}

\* a program has pushed up to MaxCaptures values in its main frame
InitClosure ==
    /\ scenario = "closure"
    /\ main_chunk = MAIN_CHAN
    /\ \E k \in 0..MaxCaptures : \E s \in [1..k -> ClosureValues] :
         machines = [Machines0 EXCEPT
                       ![1].vm = [run_push_main(@, main_chunk) EXCEPT !.stack = s],
                       ![1].phase = "running"]
    /\ host = <<>>
    /\ log = Log0

\* the instruction is executed; an error ends the run
Executed(instruction, slot) ==
    \E o \in {execute_instruction(Parent.vm, instruction, main_chunk)} :
        /\ machines' = [machines EXCEPT
                          ![1].vm = o.vm,
                          ![1].phase = IF IsErr(o.st) THEN "err" ELSE @,
                          ![1].result = IF IsErr(o.st) THEN Err(o.st) ELSE @]
        /\ log' = [log EXCEPT
                     !.closure = [@ EXCEPT !.op = instruction.opcode, !.slot = slot]]

\* MakeClosure (chunk_id << 16) | capture_count
ClosureMake ==
    /\ scenario = "closure"
    /\ Parent.phase = "running"
    /\ log.closure.op = "none"
    /\ \E chunk_id \in ClosureChunks, capture_count \in 0..MaxCaptures :
         \E packed \in {chunk_id * MAKECLOSURE_CHUNK_ID_SHIFT + capture_count} :
         \E o \in {execute_instruction(Parent.vm, Instr("MakeClosure", packed),
                                       main_chunk)} :
            /\ machines' = [machines EXCEPT
                              ![1].vm = o.vm,
                              ![1].phase = IF IsErr(o.st) THEN "err" ELSE @,
                              ![1].result = IF IsErr(o.st) THEN Err(o.st) ELSE @]
            /\ log' = [log EXCEPT
                         !.closure = [op |-> "MakeClosure", stack |-> Parent.vm.stack,
                                      packed |-> packed, slot |-> 0]]
    /\ UNCHANGED <<main_chunk, scenario, host>>

\* Call 0 on the closure just made
ClosureCall ==
    /\ scenario = "closure"
    /\ Parent.phase = "running"
    /\ log.closure.op = "MakeClosure"
    /\ Executed(Instr("Call", 0), 0)
    /\ UNCHANGED <<main_chunk, scenario, host>>

\* LoadCaptured slot, inside the closure
ClosureRead ==
    /\ scenario = "closure"
    /\ Parent.phase = "running"
    /\ log.closure.op = "Call"
    /\ \E slot \in 0..MaxCaptures : Executed(Instr("LoadCaptured", slot), slot)
    /\ UNCHANGED <<main_chunk, scenario, host>>

NextClosure ==
    \/ ClosureMake
    \/ ClosureCall
    \/ ClosureRead

(* ------------------- a program that uses the module system -------------- *)
\* most instructions of the importing program
MaxModuleOps == 5

\* the program runs in its main frame
InitModule ==
    /\ scenario = "module"
    /\ main_chunk = MAIN_MOD
    /\ machines = [Machines0 EXCEPT ![1].vm = run_push_main(@, main_chunk),
                                    ![1].phase = "running"]
    /\ host = <<>>
    /\ log = Log0

\* index of a name in the constants of the importing program
ModConst(name) ==
    (CHOOSE k \in 1..Len(ChunkAt(MAIN_MOD).constants) :
        ChunkAt(MAIN_MOD).constants[k] = String(name)) - 1

\* the program's next instruction is executed; an error ends the run
ModExecuted(opcode, name) ==
    /\ scenario = "module"
    /\ Parent.phase = "running"
    /\ log.calls < MaxModuleOps
    /\ \E o \in {execute_instruction(Parent.vm, Instr(opcode, ModConst(name)),
                                     main_chunk)} :
         /\ machines' = [machines EXCEPT
                           ![1].vm = o.vm,
                           ![1].phase = IF IsErr(o.st) THEN "err" ELSE @,
                           ![1].result = IF IsErr(o.st) THEN Err(o.st) ELSE @]
         /\ log' = [log EXCEPT
                      !.calls = @ + 1,
                      !.module = [op |-> opcode, name |-> name, res |-> o.st,
                                  err_module |-> IF o.st = "ModuleError"
                                                 THEN o.module_name ELSE "",
                                  cached |-> name \in log.loaded_ok],
                      !.loaded_ok = IF opcode = "LoadModule" /\ ~IsErr(o.st)
                                    THEN @ \cup {name} ELSE @]
    /\ UNCHANGED <<main_chunk, scenario, host>>

ModLoad == \E name \in {"good", "bad", "define", "missing"} : ModExecuted("LoadModule", name)
ModBegin == ModExecuted("BeginModule", "good")
ModEnd == ModExecuted("EndModule", "good")
ModPush == ModExecuted("PushInt2", "good")
ModExport == \E name \in {"x", "y"} : ModExecuted("ExportBinding", name)
ModStoreGlobal == ModExecuted("StoreGlobal", "g")

NextModule ==
    \/ ModLoad
    \/ ModBegin
    \/ ModEnd
    \/ ModPush
    \/ ModExport
    \/ ModStoreGlobal

(* ------------------- globals of a VM and of its tasks ------------------- *)
\* most set_global calls of the embedder
MaxGlobalWrites == 2

\* set_global(name, value) on the parent VM
GlobSet ==
    /\ scenario = "globals"
    /\ log.calls < MaxGlobalWrites
    /\ \E value \in {Integer(1), Integer(2)} :
         machines' = [machines EXCEPT ![1].vm = set_global(@, "g", value)]
    /\ log' = [log EXCEPT !.calls = @ + 1]
    /\ UNCHANGED <<main_chunk, scenario, host>>

\* spawn_task(fn () -> g := 0; t := 1; nil) on the parent VM
GlobSpawn ==
    /\ scenario = "globals"
    /\ Len(machines) < MaxMachines
    /\ \E o \in {spawn_task(Parent.vm, Function(F_SETG, <<>>))} :
         machines' = Scheduled([machines EXCEPT ![1].vm = o.vm], 1, o.spawn)
    /\ UNCHANGED <<main_chunk, scenario, host, log>>

\* a task executes its next instruction
GlobTaskStep ==
    /\ scenario = "globals"
    /\ TaskStep

NextGlobals ==
    \/ GlobSet
    \/ GlobSpawn
    \/ GlobTaskStep

(* ----------------- the usage tracker around its threshold --------------- *)
\* most record_execution calls for the node that becomes hot, for the other node,
\* and most record_error calls
MaxExecutions == 1002
MaxOtherExecutions == 2
MaxErrors == 1

TrackedChunks == {0, 1, 2}
Tracker == Parent.vm.usage_tracker[1]

\* record_execution calls so far for chunks that were mapped to the node
Executions(node_id) == or_default(log.executions, node_id, 0)

\* enable_usage_tracking(), then register_chunk(0, node 1): chunk 1 is not
\* registered yet, chunk 2 never is
InitTracker ==
    /\ scenario = "tracker"
    /\ main_chunk = MAIN_SPAWN
    /\ machines = [Machines0 EXCEPT
                     ![1].vm = [enable_usage_tracking(@) EXCEPT
                                  !.usage_tracker[1] = register_chunk(@, 0, 1)]]
    /\ host = <<>>
    /\ log = Log0

\* what the log keeps of the tracker after a call
Tracked(tracker, executions) ==
    /\ machines' = [machines EXCEPT ![1].vm.usage_tracker[1] = tracker]
    /\ log' = [log EXCEPT
                 !.executions = executions,
                 !.was_hot = @ \cup {n \in DOMAIN tracker.stats :
                                        tracker.stats[n].is_hot_path}]

TrackRegister ==
    /\ scenario = "tracker"
    /\ \E node_id \in {1, 2} :
         Tracked(register_chunk(Tracker, 1, node_id), log.executions)
    /\ UNCHANGED <<main_chunk, scenario, host>>

TrackExecution ==
    /\ scenario = "tracker"
    /\ \E chunk_id \in TrackedChunks :
         LET mapped == chunk_id \in DOMAIN Tracker.chunk_to_node
             node_id == IF mapped THEN Tracker.chunk_to_node[chunk_id] ELSE 0
         IN  /\ mapped => Executions(node_id) <
                             (IF node_id = 1 THEN MaxExecutions ELSE MaxOtherExecutions)
             /\ Tracked(record_execution(Tracker, chunk_id, 100),
                        IF mapped
                        THEN Put(log.executions, node_id, Executions(node_id) + 1)
                        ELSE log.executions)
    /\ UNCHANGED <<main_chunk, scenario, host>>

TrackError ==
    /\ scenario = "tracker"
    /\ log.errors < MaxErrors
    /\ \E chunk_id \in TrackedChunks :
         /\ machines' = [machines EXCEPT
                           ![1].vm.usage_tracker[1] = record_error(@, chunk_id)]
         /\ log' = [log EXCEPT !.errors = @ + 1]
    /\ UNCHANGED <<main_chunk, scenario, host>>

NextTracker ==
    \/ TrackRegister
    \/ TrackExecution
    \/ TrackError

(* ------------- a channel when it is empty and when it is full ----------- *)
\* how far below its capacity the channel is followed, and most sends and
\* receives of the embedder
ChannelSlack == 2
MaxBufferOps == 5

\* create_channel(), then either nothing or sends up to ChannelSlack values below
\* the capacity
InitBuffer ==
    /\ scenario = "buffer"
    /\ main_chunk = MAIN_SPAWN
    /\ \E n \in {0, DEFAULT_CHANNEL_CAPACITY - ChannelSlack} :
         \E c \in {create_channel(VM_new)} :
            machines = [Machines0 EXCEPT
                          ![1].vm = [c.vm EXCEPT
                                       !.channels[c.id].buf = [k \in 1..n |-> Nil]]]
    /\ host = <<>>
    /\ log = Log0

\* send_to_channel(channel_id, value), on the channel or on an id never allocated
BufSend ==
    /\ scenario = "buffer"
    /\ log.calls < MaxBufferOps
    /\ \E channel_id \in {1, 2}, value \in {Integer(1), Integer(2)} :
         \E o \in {send_to_channel(Parent.vm, channel_id, value)} :
            /\ machines' = [machines EXCEPT ![1].vm = o.vm]
            /\ log' = [log EXCEPT
                         !.calls = @ + 1,
                         !.api = [op |-> "send", id |-> channel_id, value |-> value,
                                  res |-> IF IsErr(o.st) THEN Err(o.st) ELSE Ok(Nil)]]
    /\ UNCHANGED <<main_chunk, scenario, host>>

\* receive_from_channel(channel_id)
BufReceive ==
    /\ scenario = "buffer"
    /\ log.calls < MaxBufferOps
    /\ \E channel_id \in {1, 2} :
         \E r \in {receive_from_channel(Parent.vm, channel_id)} :
            /\ machines' = [machines EXCEPT ![1].vm = r.vm]
            /\ log' = [log EXCEPT
                         !.calls = @ + 1,
                         !.api = [op |-> "receive", id |-> channel_id, value |-> Nil,
                                  res |-> r.res]]
    /\ UNCHANGED <<main_chunk, scenario, host>>

NextBuffer ==
    \/ BufSend
    \/ BufReceive

(* ------------- programs that await tasks, failing ones included --------- *)
AwaitChunks == {MAIN_SPAWN, MAIN_MULTI, MAIN_AWAIT_FAIL, MAIN_AWAIT_SEND}

InitAwait ==
    /\ scenario = "await"
    /\ main_chunk \in AwaitChunks
    /\ machines = Machines0
    /\ host = <<>>
    /\ log = Log0

\* run()
AwaitRun ==
    /\ scenario = "await"
    /\ Parent.phase = "new"
    /\ machines' = [machines EXCEPT ![1].vm = run_push_main(@, main_chunk),
                                    ![1].phase = "running"]
    /\ UNCHANGED <<main_chunk, scenario, host, log>>

NextAwait ==
    \/ AwaitRun
    \/ ParentStep
    \/ TaskStep

(* ----------- handlers and natives called through every path ------------ *)
MaxNativeOps == 3

\* what the embedder offers as a handler or a callee, and the argument lists
Callees == {Function(F_FOLD, <<>>), Procedure, NativeFunction("keep", 2),
            NativeFunction("fail", 1), Nil}
ArgLists == {<<>>, << Integer(1) >>, << Integer(1), Integer(2) >>}
GlobalNames == {"keep", "fail", "x", "missing"}

\* a VM whose globals hold two native functions and a plain value
InitNative ==
    /\ scenario = "native"
    /\ main_chunk = MAIN_SPAWN
    /\ machines = [Machines0 EXCEPT
                     ![1].vm = set_global(
                                   set_global(
                                       set_global(@, "keep", NativeFunction("keep", 2)),
                                       "fail", NativeFunction("fail", 1)),
                                   "x", Integer(1))]
    /\ host = <<>>
    /\ log = Log0

NatCreateActor ==
    /\ scenario = "native"
    /\ log.calls < MaxNativeOps
    /\ next_actor_id(Parent.vm) <= MaxActors
    /\ \E initial_state \in InitialStates, handler \in Callees :
         \E r \in {create_actor(Parent.vm, initial_state, handler)} :
            /\ machines' = [machines EXCEPT ![1].vm = r.vm]
            /\ log' = [log EXCEPT
                         !.calls = @ + 1,
                         !.api = [op |-> "create_actor", id |-> next_actor_id(Parent.vm),
                                  value |-> handler, res |-> r.res]]
    /\ UNCHANGED <<main_chunk, scenario, host>>

NatSendToActor ==
    /\ scenario = "native"
    /\ log.calls < MaxNativeOps
    /\ \E actor_id \in 1..MaxActors, message \in Messages :
         \E o \in {send_to_actor(Parent.vm, actor_id, message)} :
            /\ machines' = [machines EXCEPT ![1].vm = o.vm]
            /\ log' = [log EXCEPT
                         !.calls = @ + 1,
                         !.api = [op |-> "send_to_actor", id |-> actor_id,
                                  value |-> message,
                                  res |-> IF IsErr(o.st) THEN Err(o.st) ELSE Ok(Nil)]]
    /\ UNCHANGED <<main_chunk, scenario, host>>

NatProcess ==
    /\ scenario = "native"
    /\ log.calls < MaxNativeOps
    /\ \E actor_id \in 1..MaxActors :
         \E o \in {process_actor_messages(Parent.vm, actor_id)} :
            /\ machines' = [machines EXCEPT ![1].vm = o.vm]
            /\ log' = [log EXCEPT
                         !.calls = @ + 1,
                         !.api = [op |-> "process", id |-> actor_id, value |-> Nil,
                                  res |-> IF IsErr(o.st) THEN Err(o.st) ELSE Ok(Nil)]]
    /\ UNCHANGED <<main_chunk, scenario, host>>

\* the callee and its arguments are pushed, then call_value(n)
NatCallValue ==
    /\ scenario = "native"
    /\ log.calls < MaxNativeOps
    /\ \E func \in Callees, args \in ArgLists :
         \E o \in {call_value(push_all(Parent.vm, << func >> \o args).vm, Len(args))} :
            /\ machines' = [machines EXCEPT ![1].vm = o.vm]
            /\ log' = [log EXCEPT
                         !.calls = @ + 1,
                         !.native = [op |-> "call_value", func |-> << func >>,
                                     args |-> args,
                                     res |-> IF IsErr(o.st) THEN Err(o.st) ELSE Ok(Nil),
                                     called |-> o.called]]
    /\ UNCHANGED <<main_chunk, scenario, host>>

NatCallHandler ==
    /\ scenario = "native"
    /\ log.calls < MaxNativeOps
    /\ \E handler \in Callees, args \in ArgLists :
         \E r \in {call_handler_function(Parent.vm, handler, args)} :
            /\ machines' = [machines EXCEPT ![1].vm = r.vm]
            /\ log' = [log EXCEPT
                         !.calls = @ + 1,
                         !.native = [op |-> "call_handler_function",
                                     func |-> << handler >>, args |-> args,
                                     res |-> r.res, called |-> r.called]]
    /\ UNCHANGED <<main_chunk, scenario, host>>

NatCallNative ==
    /\ scenario = "native"
    /\ log.calls < MaxNativeOps
    /\ \E native_func \in GlobalNames, args \in ArgLists :
         \E o \in {call_native_function(Parent.vm, native_func, args)} :
            /\ machines' = [machines EXCEPT ![1].vm = o.vm]
            /\ log' = [log EXCEPT
                         !.calls = @ + 1,
                         !.native = [op |-> "call_native_function",
                                     func |-> IF native_func \in DOMAIN Parent.vm.globals
                                              THEN << Parent.vm.globals[native_func] >>
                                              ELSE <<>>,
                                     args |-> args,
                                     res |-> IF IsErr(o.st) THEN Err(o.st) ELSE Ok(Nil),
                                     called |-> o.called]]
    /\ UNCHANGED <<main_chunk, scenario, host>>

NextNative ==
    \/ NatCreateActor
    \/ NatSendToActor
    \/ NatProcess
    \/ NatCallValue
    \/ NatCallHandler
    \/ NatCallNative

(* --------------------- local slots of the current frame ----------------- *)
\* most values on the stack, and most reads and writes of a local
MaxLocals == 3
MaxLocalOps == 3
LocalValues == {Integer(0), Integer(1)}

\* a VM with some values on its stack and either no frame or one frame whose
\* stack_base lies within the stack
InitLocals ==
    /\ scenario = "locals"
    /\ main_chunk = MAIN_SPAWN
    /\ \E n \in 0..MaxLocals :
         \E stack \in [1..n -> LocalValues] :
            \E call_stack \in {<<>>} \cup
                   {<< CallFrame(MAIN_SPAWN, 0, stack_base, <<>>) >> : stack_base \in 0..n} :
               machines = [Machines0 EXCEPT ![1].vm = [@ EXCEPT !.stack = stack,
                                                               !.call_stack = call_stack]]
    /\ host = <<>>
    /\ log = Log0

LocGet ==
    /\ scenario = "locals"
    /\ log.calls < MaxLocalOps
    /\ \E index \in 0..MaxLocals :
          log' = [log EXCEPT
                    !.calls = @ + 1,
                    !.api = [op |-> "get_local", id |-> index, value |-> Nil,
                             res |-> get_local(Parent.vm, index)]]
    /\ UNCHANGED <<machines, main_chunk, scenario, host>>

LocSet ==
    /\ scenario = "locals"
    /\ log.calls < MaxLocalOps
    /\ \E index \in 0..MaxLocals, value \in {Integer(2)} :
         \E o \in {set_local(Parent.vm, index, value)} :
            /\ machines' = [machines EXCEPT ![1].vm = o.vm]
            /\ log' = [log EXCEPT
                         !.calls = @ + 1,
                         !.api = [op |-> "set_local", id |-> index, value |-> value,
                                  res |-> IF IsErr(o.st) THEN Err(o.st) ELSE Ok(Nil)]]
    /\ UNCHANGED <<main_chunk, scenario, host>>

NextLocals ==
    \/ LocGet
    \/ LocSet

(* ------------- a VM under a security manager and its limits ------------- *)
\* the instruction budget of the policy, and most API calls of the embedder
MaxInstructions == 3
MaxLimitOps == 3
LimitChunks == {MAIN_HALT, MAIN_TAIL, MAIN_FALL, MAIN_HALT_EMPTY, MAIN_RETURN_EMPTY}

\* a VM with a security manager installed (its budget nothing or MaxInstructions)
\* and a call depth limit of one frame or MaxCallDepth
InitLimits ==
    /\ scenario = "limits"
    /\ main_chunk \in LimitChunks
    /\ \E max_instructions \in {0, MaxInstructions}, max_depth \in {1, MaxCallDepth} :
          machines = [Machines0 EXCEPT
                        ![1].vm = set_security_manager(set_resource_limits(@, max_depth),
                                                       max_instructions)]
    /\ host = <<>>
    /\ log = Log0

\* run()
LimRun ==
    /\ scenario = "limits"
    /\ Parent.phase = "new"
    /\ machines' = [machines EXCEPT ![1].vm = run_push_main(@, main_chunk),
                                    ![1].phase = "running"]
    /\ UNCHANGED <<main_chunk, scenario, host, log>>

\* the embedder calls the VM only while no run() is in progress
LimIdle ==
    scenario = "limits" /\ Parent.phase # "running" /\ log.calls < MaxLimitOps

LimCreateActor ==
    /\ LimIdle
    /\ next_actor_id(Parent.vm) <= 1
    /\ \E r \in {create_actor(Parent.vm, Integer(1), Function(F_FOLD, <<>>))} :
          /\ machines' = [machines EXCEPT ![1].vm = r.vm]
          /\ log' = [log EXCEPT
                       !.calls = @ + 1,
                       !.api = [op |-> "create_actor", id |-> next_actor_id(Parent.vm),
                                value |-> Nil, res |-> r.res]]
    /\ UNCHANGED <<main_chunk, scenario, host>>

LimSendToActor ==
    /\ LimIdle
    /\ \E message \in Messages :
         \E o \in {send_to_actor(Parent.vm, 1, message)} :
            /\ machines' = [machines EXCEPT ![1].vm = o.vm]
            /\ log' = [log EXCEPT
                         !.calls = @ + 1,
                         !.api = [op |-> "send_to_actor", id |-> 1, value |-> message,
                                  res |-> IF IsErr(o.st) THEN Err(o.st) ELSE Ok(Nil)]]
    /\ UNCHANGED <<main_chunk, scenario, host>>

LimProcess ==
    /\ LimIdle
    /\ \E o \in {process_actor_messages(Parent.vm, 1)} :
          /\ machines' = [machines EXCEPT ![1].vm = o.vm]
          /\ log' = [log EXCEPT
                       !.calls = @ + 1,
                       !.api = [op |-> "process", id |-> 1, value |-> Nil,
                                res |-> IF IsErr(o.st) THEN Err(o.st) ELSE Ok(Nil)]]
    /\ UNCHANGED <<main_chunk, scenario, host>>

\* an effect handler is called: call_handler_function
LimCallHandler ==
    /\ LimIdle
    /\ \E handler \in {Function(F_ONE, <<>>), Function(F_ADD, <<>>)} :
         \E r \in {call_handler_function(Parent.vm, handler, <<>>)} :
            /\ machines' = [machines EXCEPT ![1].vm = r.vm]
            /\ log' = [log EXCEPT
                         !.calls = @ + 1,
                         !.api = [op |-> "call_handler_function", id |-> 0,
                                  value |-> handler, res |-> r.res]]
    /\ UNCHANGED <<main_chunk, scenario, host>>

NextLimits ==
    \/ LimRun
    \/ ParentStep
    \/ LimCreateActor
    \/ LimSendToActor
    \/ LimProcess
    \/ LimCallHandler

(* ------------- programs and functions that leave their chunk ------------- *)
\* most calls (run, call_value, call_handler_function) the embedder makes
MaxDispatchOps == 2

\* programs that return, halt, call, fall off their end or jump out of their chunk
DispatchChunks == {F_ONE, F_ADD, F_CALLS, MAIN_HALT, MAIN_CALL_HALT, MAIN_FALL,
                   MAIN_JUMP_OUT, MAIN_HALT_EMPTY, MAIN_RETURN_EMPTY, MAIN_GC}

\* the functions the embedder calls, each with the arguments it is given
DispatchCalls ==
    { << Function(F_ONE, <<>>), <<>> >>,
      << Function(F_FOLD, <<>>), << Integer(1), Integer(2) >> >>,
      << Function(F_REC, <<>>), << Integer(1) >> >>,
      << Function(F_CALLS, <<>>), <<>> >>,
      << Function(MAIN_HALT, <<>>), <<>> >>,
      << Function(MAIN_HALT_EMPTY, <<>>), <<>> >>,
      << Function(MAIN_FALL, <<>>), <<>> >>,
      << Function(MAIN_JUMP_OUT, <<>>), <<>> >> }

\* a new VM, with a collector installed or not when the program allocates
InitDispatch ==
    /\ scenario = "dispatch"
    /\ main_chunk \in DispatchChunks
    /\ \E gc \in IF main_chunk = MAIN_GC THEN BOOLEAN ELSE {FALSE} :
          machines = IF gc THEN [Machines0 EXCEPT ![1].vm = with_gc(@)] ELSE Machines0
    /\ host = <<>>
    /\ log = Log0

\* the embedder calls the VM only while no run() is in progress
DispIdle ==
    scenario = "dispatch" /\ Parent.phase # "running" /\ log.calls < MaxDispatchOps

\* run(), on a new VM or once more after a run that succeeded; the result of the
\* run before it is kept beside it
DispRun ==
    /\ DispIdle
    /\ Parent.phase \in {"new", "ok"}
    /\ machines' = [machines EXCEPT ![1].vm = run_push_main(@, main_chunk),
                                    ![1].phase = "running"]
    /\ log' = [log EXCEPT
                 !.calls = @ + 1,
                 !.api = [op |-> "run",
                          id |-> IF Parent.phase = "ok" /\ log.api.op = "run"
                                 THEN 2 ELSE 1,
                          value |-> Nil, res |-> Parent.result]]
    /\ UNCHANGED <<main_chunk, scenario, host>>

\* the function and its arguments are pushed, then call_value(n)
DispCallValue ==
    /\ DispIdle
    /\ \E call \in DispatchCalls :
         \E o \in {call_value(push_all(Parent.vm, << call[1] >> \o call[2]).vm,
                              Len(call[2]))} :
            /\ machines' = [machines EXCEPT ![1].vm = o.vm]
            /\ log' = [log EXCEPT
                         !.calls = @ + 1,
                         !.api = [op |-> "call_value", id |-> Len(call[2]),
                                  value |-> call[1],
                                  res |-> IF IsErr(o.st) THEN Err(o.st) ELSE Ok(Nil)]]
    /\ UNCHANGED <<main_chunk, scenario, host>>

\* call_handler_function(handler, args)
DispCallHandler ==
    /\ DispIdle
    /\ \E call \in DispatchCalls :
         \E r \in {call_handler_function(Parent.vm, call[1], call[2])} :
            /\ machines' = [machines EXCEPT ![1].vm = r.vm]
            /\ log' = [log EXCEPT
                         !.calls = @ + 1,
                         !.api = [op |-> "call_handler_function", id |-> Len(call[2]),
                                  value |-> call[1], res |-> r.res]]
    /\ UNCHANGED <<main_chunk, scenario, host>>

NextDispatch ==
    \/ DispRun
    \/ ParentStep
    \/ DispCallValue
    \/ DispCallHandler

(* ------------------------- values compared ------------------------------ *)
\* values of every kind the comparison knows, and of the kinds it does not
EqualValues ==
    { Nil, Boolean(TRUE), Boolean(FALSE), Integer(0), Integer(1),
      String("a"), String("b"), Symbol("a"),
      List(<<>>), List(<< Integer(1) >>), List(<< Integer(1), Integer(0) >>),
      List(<< List(<< Integer(1) >>) >>), Vector(<< Integer(1) >>),
      Map([k \in {"x"} |-> Integer(1)]), Map([k \in {"x"} |-> Integer(0)]),
      Map([k \in {"y"} |-> Integer(1)]),
      Tagged("some", << Integer(1) >>), Tagged("some", << Integer(0) >>),
      Tagged("none", <<>>),
      Promise(1), Promise(2), Channel(1), Channel(2), Cell(0), Cell(1),
      Actor(1), Actor(2),
      Function(F_ONE, <<>>), Function(F_TWO, <<>>), Function(F_ONE, << Integer(1) >>),
      Function(F_ONE, << Integer(0) >>) }

InitEqual ==
    /\ scenario = "equal"
    /\ main_chunk = MAIN_SPAWN
    /\ machines = Machines0
    /\ host = <<>>
    /\ log = Log0

\* values_equal(a, b), what it was given and what it answered (the comparison
\* reads nothing of the VM, so one call from the initial state shows all it does)
EqCompare ==
    /\ scenario = "equal"
    /\ log.api.op = "none"
    /\ \E a \in EqualValues, b \in EqualValues :
          log' = [log EXCEPT
                    !.api = [op |-> "values_equal", id |-> 0, value |-> << a, b >>,
                             res |-> values_equal(a, b)]]
    /\ UNCHANGED <<machines, main_chunk, scenario, host>>

NextEqual == EqCompare

(* ------------- actors whose handlers send, fail and fold ---------------- *)
MaxLifeOps == 5

\* handlers that add the message to the state, that fail, and that send the
\* state to the actor named by the message
LifeHandlers == {Function(F_FOLD, <<>>), Function(F_FAIL, <<>>),
                 Function(F_SELF_SEND, <<>>)}
LifeMessages == {Integer(2)} \cup {Actor(i) : i \in 1..MaxActors}

\* a new VM, as constructed or with a collector, a usage tracker, a security
\* manager and a call-depth limit of its own
InitLife ==
    /\ scenario = "lifecycle"
    /\ main_chunk = MAIN_SPAWN
    /\ \E vm \in {VM_new,
                   set_resource_limits(
                       set_security_manager(enable_usage_tracking(with_gc(VM_new)),
                                            MaxInstructions),
                       MaxCallDepth - 1)} :
          machines = [Machines0 EXCEPT ![1].vm = vm]
    /\ host = <<>>
    /\ log = Log0

LifeIdle == scenario = "lifecycle" /\ log.calls < MaxLifeOps

LifeCreateActor ==
    /\ LifeIdle
    /\ next_actor_id(Parent.vm) <= MaxActors
    /\ \E handler \in LifeHandlers :
         \E r \in {create_actor(Parent.vm, Integer(1), handler)} :
            /\ machines' = [machines EXCEPT ![1].vm = r.vm]
            /\ log' = [log EXCEPT
                         !.calls = @ + 1,
                         !.api = [op |-> "create_actor", id |-> next_actor_id(Parent.vm),
                                  value |-> handler, res |-> r.res]]
    /\ UNCHANGED <<main_chunk, scenario, host>>

LifeSendToActor ==
    /\ LifeIdle
    /\ \E actor_id \in 1..MaxActors, message \in LifeMessages :
         \E o \in {send_to_actor(Parent.vm, actor_id, message)} :
            /\ machines' = [machines EXCEPT ![1].vm = o.vm]
            /\ log' = [log EXCEPT
                         !.calls = @ + 1,
                         !.api = [op |-> "send_to_actor", id |-> actor_id,
                                  value |-> message,
                                  res |-> IF IsErr(o.st) THEN Err(o.st) ELSE Ok(Nil)]]
    /\ UNCHANGED <<main_chunk, scenario, host>>

\* process_actor_messages(actor_id), from its entry to its return
LifeProcess ==
    /\ LifeIdle
    /\ \E actor_id \in 1..MaxActors :
         \E o \in {process_actor_messages(Parent.vm, actor_id)} :
            /\ machines' = [machines EXCEPT ![1].vm = o.vm]
            /\ log' = [log EXCEPT
                         !.calls = @ + 1,
                         !.api = [op |-> "process", id |-> actor_id, value |-> Nil,
                                  res |-> IF IsErr(o.st) THEN Err(o.st) ELSE Ok(Nil)]]
    /\ UNCHANGED <<main_chunk, scenario, host>>

LifeCreateChannel ==
    /\ LifeIdle
    /\ next_channel_id(Parent.vm) <= MaxChannels
    /\ \E r \in {create_channel(Parent.vm)} :
          /\ machines' = [machines EXCEPT ![1].vm = r.vm]
          /\ log' = [log EXCEPT
                       !.calls = @ + 1,
                       !.api = [op |-> "create_channel", id |-> r.id, value |-> Nil,
                                res |-> Ok(Channel(r.id))]]
    /\ UNCHANGED <<main_chunk, scenario, host>>

LifeSetGlobal ==
    /\ LifeIdle
    /\ machines' = [machines EXCEPT ![1].vm = set_global(@, "x", Integer(1))]
    /\ log' = [log EXCEPT
                 !.calls = @ + 1,
                 !.api = [op |-> "set_global", id |-> 0, value |-> Integer(1),
                          res |-> Ok(Nil)]]
    /\ UNCHANGED <<main_chunk, scenario, host>>

\* load_module(name), as the LoadModule instruction calls it
LifeLoadModule ==
    /\ LifeIdle
    /\ \E o \in {load_module(Parent.vm, "good")} :
          /\ machines' = [machines EXCEPT ![1].vm = o.vm]
          /\ log' = [log EXCEPT
                       !.calls = @ + 1,
                       !.api = [op |-> "load_module", id |-> 0, value |-> Nil,
                                res |-> IF IsErr(o.st) THEN Err(o.st) ELSE Ok(Nil)]]
    /\ UNCHANGED <<main_chunk, scenario, host>>

\* reset()
LifeReset ==
    /\ LifeIdle
    /\ machines' = [machines EXCEPT ![1].vm = reset(@)]
    /\ log' = [log EXCEPT
                 !.calls = @ + 1,
                 !.api = [op |-> "reset", id |-> 0, value |-> Nil, res |-> Ok(Nil)]]
    /\ UNCHANGED <<main_chunk, scenario, host>>

NextLife ==
    \/ LifeCreateActor
    \/ LifeSendToActor
    \/ LifeProcess
    \/ LifeCreateChannel
    \/ LifeSetGlobal
    \/ LifeLoadModule
    \/ LifeReset

NextRun ==
    \/ Run
    \/ ParentStep
    \/ TaskStep

NextPromise ==
    \/ ApiSpawn
    \/ ApiAwait
    \/ TaskStep

NextChannel ==
    \/ ApiCreateChannel
    \/ ApiSend
    \/ ApiReceive

NextActor ==
    \/ ApiCreateActor
    \/ ApiSendToActor
    \/ ProcessBegin
    \/ HandlerStart
    \/ HandlerFinish
    \/ ProcessEnd
    \/ ProcessAllBegin
    \/ ProcessAllNext
    \/ ProcessAllEnd

Init ==
    \/ InitRun
    \/ \E s \in {"promise", "channel", "actor"} : InitApi(s)
    \/ InitStack
    \/ InitPair
    \/ InitClosure
    \/ InitModule
    \/ InitApi("globals")
    \/ InitTracker
    \/ InitBuffer
    \/ InitAwait
    \/ InitNative
    \/ InitLocals
    \/ InitLimits
    \/ InitDispatch
    \/ InitLife
    \/ InitEqual

Next == NextRun \/ NextPromise \/ NextChannel \/ NextActor \/ NextStack \/ NextPair
        \/ NextClosure \/ NextModule \/ NextGlobals
        \/ NextTracker \/ NextBuffer \/ NextAwait \/ NextNative \/ NextLocals
        \/ NextLimits \/ NextDispatch \/ NextEqual \/ NextLife

Spec == Init /\ [][Next]_vars
SpecRun == InitRun /\ [][NextRun]_vars
SpecPromise == InitApi("promise") /\ [][NextPromise]_vars
SpecChannel == InitApi("channel") /\ [][NextChannel]_vars
SpecActor == InitApi("actor") /\ [][NextActor]_vars
SpecStack == InitStack /\ [][NextStack]_vars
SpecPair == InitPair /\ [][NextPair]_vars
SpecClosure == InitClosure /\ [][NextClosure]_vars
SpecModule == InitModule /\ [][NextModule]_vars
SpecGlobals == InitApi("globals") /\ [][NextGlobals]_vars
SpecTracker == InitTracker /\ [][NextTracker]_vars
SpecBuffer == InitBuffer /\ [][NextBuffer]_vars
SpecAwait == InitAwait /\ [][NextAwait]_vars
SpecNative == InitNative /\ [][NextNative]_vars
SpecLocals == InitLocals /\ [][NextLocals]_vars
SpecLimits == InitLimits /\ [][NextLimits]_vars
SpecDispatch == InitDispatch /\ [][NextDispatch]_vars
SpecEqual == InitEqual /\ [][NextEqual]_vars
SpecLife == InitLife /\ [][NextLife]_vars

(* ============================ properties =============================== *)
RunOf(main) == scenario = "run" /\ main_chunk = main
ParentDone == Parent.phase \in {"ok", "err"}

\* C1: a program that spawns fn () -> 1 + 2 and awaits the promise ends run() with
\* Integer(3), in every execution
C1_AwaitYieldsTaskResult ==
    (RunOf(MAIN_SPAWN) /\ ParentDone) => Parent.result = Ok(Integer(3))

\* C2: when the spawned task has run to completion before the parent executes
\* Receive, the parent's Receive returns the 42 the task sent on the parent's channel
C2_ChannelSharedWithTask ==
    (RunOf(MAIN_CHAN) /\ ParentDone /\ Len(machines) > 1
        /\ Parent.g.tasks_done_at_receive)
    => Parent.result = Ok(Integer(42))

\* C3: the two Spawns allocate distinct promise ids, and awaiting p1 then p2 yields
\* [1, 2] whatever the order in which the tasks complete
C3_EachAwaitYieldsItsTask ==
    /\ \A i, j \in TaskIds : i # j => machines[i].tx[1].promise_id # machines[j].tx[1].promise_id
    /\ (RunOf(MAIN_MULTI) /\ ParentDone)
       => Parent.result = Ok(List(<< Integer(1), Integer(2) >>))

\* C4: for every channel, the values received from its buffer are a prefix of the
\* values successfully sent, in order, and what was sent and not yet received is
\* exactly what the channel still buffers
C4_ChannelFifo ==
    \A ch \in DOMAIN log.sent :
        /\ IsPrefix(log.received[ch], log.sent[ch])
        /\ log.sent[ch] = log.received[ch] \o Parent.vm.channels[ch].buf

\* C4 witness: two different values were sent on a channel and one was received
C4_Witness ==
    \E ch \in DOMAIN log.sent :
        /\ Len(log.sent[ch]) >= 2
        /\ log.sent[ch][1] # log.sent[ch][2]
        /\ Len(log.received[ch]) >= 1

\* h(s, m): what the handler returns for state s and message m, run on its own
\* (Nil when the call fails)
HandlerResult(handler, state, message) ==
    LET o == call_value_enter([VM_new EXCEPT !.stack = << handler, state, message >>], 2)
        r == IF IsErr(o.st) THEN o ELSE call_value_loop(o.vm, 1, MaxFuel)
    IN  IF IsErr(r.st) \/ ~CanPop(r.vm) THEN Nil ELSE Top(r.vm)

RECURSIVE FoldLeft(_, _, _)
FoldLeft(handler, state, messages) ==
    IF messages = <<>> THEN state
    ELSE FoldLeft(handler, HandlerResult(handler, state, Head(messages)), Tail(messages))

\* C5: an actor whose mailbox has been drained holds the left fold of its handler
\* over the messages sent to it, in send order, starting from its initial state
C5_ActorStateIsLeftFold ==
    \A id \in DOMAIN Parent.vm.actors :
        Parent.vm.actors[id].mailbox = <<>>
        => Parent.vm.actors[id].state =
               FoldLeft(Parent.vm.actors[id].handler, log.actor_init[id],
                        log.actor_sent[id])

\* C5 witness: two different messages were sent to an actor and both were handled
C5_Witness ==
    \E id \in DOMAIN Parent.vm.actors :
        /\ Parent.vm.actors[id].mailbox = <<>>
        /\ Len(log.actor_sent[id]) = 2
        /\ log.actor_sent[id][1] # log.actor_sent[id][2]
        /\ Parent.vm.actors[id].state # log.actor_init[id]

\* the calls of process_actor_messages in progress for actor id
CallsFor(id) == {i \in DOMAIN host : host[i].kind = "actor" /\ host[i].actor_id = id}

\* the state of actor id, wherever the actor is held (<<>> when it is held nowhere)
StateOf(h, vm, id) ==
    IF id \in DOMAIN vm.actors THEN << vm.actors[id].state >>
    ELSE IF \E i \in DOMAIN h : h[i].kind = "actor" /\ h[i].actor_id = id
    THEN << h[CHOOSE i \in DOMAIN h : h[i].kind = "actor" /\ h[i].actor_id = id].actor.state >>
    ELSE <<>>

OneMessageAtATime ==
    \A id \in 1..MaxActors :
        /\ Cardinality(CallsFor(id)) <= 1
        /\ CallsFor(id) # {} => id \notin DOMAIN Parent.vm.actors

StateWrittenByItsHandler ==
    \A id \in 1..MaxActors :
        (/\ StateOf(host, Parent.vm, id) # <<>>
         /\ StateOf(host', Parent.vm', id) # <<>>
         /\ StateOf(host', Parent.vm', id) # StateOf(host, Parent.vm, id))
        => /\ host # <<>>
           /\ Last(host).kind = "actor"
           /\ Last(host).actor_id = id
           /\ Last(host).phase = "handling"

\* C6: at most one call is processing a given actor at any instant, also when a
\* handler starts processing itself, and an actor's state changes only in the step
\* that completes the handler invocation for its current message
C6_OneMessagePerActor == [](OneMessageAtATime) /\ [][StateWrittenByItsHandler]_vars

\* C6 witness: a handler has started processing from inside another actor's handler
C6_Witness ==
    /\ Len(host) >= 2
    /\ host[1].kind = "actor" /\ host[1].phase = "handling"
    /\ Last(host).kind = "actor" /\ Last(host).phase = "handling"

\* C7: an awaited promise id is no longer registered; an Await on an id awaited
\* before or never allocated fails with AsyncError; at most one Await per id
\* returns a task's result
C7_PromiseOneShot ==
    /\ \A id \in log.awaited : id \notin DOMAIN Parent.vm.promises
    /\ \A k \in DOMAIN log.awaits :
          (log.awaits[k].again \/ ~log.awaits[k].allocated)
          => log.awaits[k].res = Err("AsyncError")
    /\ \A id \in log.awaited :
          Cardinality({k \in DOMAIN log.awaits :
                          log.awaits[k].id = id /\ log.awaits[k].ready}) <= 1

\* C7 witness: a promise whose task had completed was awaited, and then awaited again
C7_Witness ==
    \E j, k \in DOMAIN log.awaits :
        /\ j < k
        /\ log.awaits[j].id = log.awaits[k].id
        /\ log.awaits[j].ready
        /\ log.awaits[k].again /\ log.awaits[k].allocated

\* C8: when FinallyEnd has executed, the finally block has run exactly once and the
\* value on top of the stack is the saved result (normal path) or the saved thrown
\* value (throw path)
C8_FinallyRunsOnceAndResumes ==
    (scenario = "run" /\ Parent.g.last = "FinallyEnd")
    => /\ Parent.g.finally_runs = 1
       /\ CanPop(Parent.vm)
       /\ Top(Parent.vm) = IF Parent.g.thrown # <<>> THEN Parent.g.thrown[1]
                           ELSE Integer(1)

\* C9: when Throw has executed with a handler installed, the call stack is back at
\* the handler's call-frame index, the operand stack is the stack recorded at
\* TryStart plus the thrown value, and the IP is catch_ip; with no handler
\* installed the run has failed
C9_ThrowUnwindsToHandler ==
    \A i \in DOMAIN machines :
        machines[i].g.last = "Throw" /\ machines[i].g.thrown # <<>>
        => IF machines[i].g.throw_handler # <<>>
           THEN LET h == machines[i].g.throw_handler[1]
                    vm == machines[i].vm
                IN  /\ Len(vm.call_stack) = h.call_frame
                    /\ vm.stack = Append(SubSeq(machines[i].g.pre_stack, 1, h.stack_depth),
                                         machines[i].g.thrown[1])
                    /\ Last(vm.call_stack).ip = h.catch_ip
           ELSE machines[i].phase = "err"

\* C10: when TailCall has executed, the call stack is as deep as before it and its
\* top frame is the callee's, at its first instruction, over the arguments alone
C10_TailCallReusesFrame ==
    \A i \in DOMAIN machines :
        machines[i].g.last = "TailCall" /\ machines[i].g.tail # <<>>
        => LET t == machines[i].g.tail[1]
               vm == machines[i].vm
           IN  /\ Len(vm.call_stack) = machines[i].g.pre_depth
               /\ Last(vm.call_stack).chunk_id = t.func.chunk_id
               /\ Last(vm.call_stack).ip = 0
               /\ vm.stack = SubSeq(machines[i].g.pre_stack, 1, t.stack_base) \o t.args

\* C11: in every VM the call stack is never deeper than the configured
\* max_call_depth, whichever way its frames were pushed
C11_CallDepthWithinLimit ==
    \A i \in DOMAIN machines :
        Len(machines[i].vm.call_stack) <= machines[i].vm.max_call_depth

\* C12: the operand stack never holds more than STACK_SIZE (10,000) values; a push
\* on a stack that holds STACK_SIZE values fails with StackOverflow and leaves the
\* stack as it was
C12_StackWithinCapacity ==
    /\ \A i \in DOMAIN machines : Len(machines[i].vm.stack) <= STACK_SIZE
    /\ (scenario = "stack" /\ Parent.g.last = "push"
            /\ Len(Parent.g.pre_stack) = STACK_SIZE)
         => /\ Parent.result = Err("StackOverflow")
            /\ Parent.vm.stack = Parent.g.pre_stack

C12_Witness ==
    /\ scenario = "stack"
    /\ Parent.g.last = "push"
    /\ Len(Parent.g.pre_stack) = STACK_SIZE
    /\ Parent.result = Err("StackOverflow")

C15_ClosureCapturesInPushOrder ==
    scenario = "closure" =>
        LET c == log.closure
            pre == c.stack
            n == c.packed % (MAKECLOSURE_CAPTURE_COUNT_MASK + 1)
            chunk_id == c.packed \div MAKECLOSURE_CHUNK_ID_SHIFT
            below == Len(pre) - n
        IN  /\ (c.op = "MakeClosure" /\ n <= Len(pre))
                 => /\ Parent.phase = "running"
                    /\ Parent.vm.stack =
                         Append(SubSeq(pre, 1, below),
                                Function(chunk_id, SubSeq(pre, below + 1, Len(pre))))
            /\ (c.op = "LoadCaptured" /\ c.slot < n /\ n <= Len(pre))
                 => /\ Parent.phase = "running"
                    /\ Top(Parent.vm) = pre[below + 1 + c.slot]
                    /\ Front(Parent.vm.stack) = SubSeq(pre, 1, below)

C15_Witness ==
    /\ scenario = "closure"
    /\ log.closure.op = "LoadCaptured"
    /\ log.closure.stack = << Nil, Integer(1), Integer(2) >>
    /\ log.closure.packed = F_SEND * MAKECLOSURE_CHUNK_ID_SHIFT + 2
    /\ log.closure.slot = 0
    /\ Parent.vm.stack = << Nil, Integer(1) >>
    /\ Last(Parent.vm.call_stack).env = << Integer(1), Integer(2) >>

\* the step is a LoadModule of the importing program
LoadStep == scenario = "module" /\ log'.calls = log.calls + 1
                /\ log'.module.op = "LoadModule"

C17_FailedModuleLeavesParent ==
    [][ (LoadStep /\ log'.module.name = "bad"
            /\ "bad" \notin DOMAIN Parent.vm.loaded_modules)
          => /\ log'.module.res = "ModuleError"
             /\ log'.module.err_module = "bad"
             /\ Parent'.vm.globals = Parent.vm.globals
             /\ Len(Parent'.vm.stack) = Len(Parent.vm.stack)
             /\ Parent'.vm.current_module = Parent.vm.current_module
             /\ Parent'.vm.loaded_modules = Parent.vm.loaded_modules
      ]_vars

C17_Witness ==
    /\ scenario = "module"
    /\ log.module.op = "LoadModule"
    /\ log.module.name = "bad"
    /\ log.module.res = "ModuleError"
    /\ log.module.err_module = "bad"
    /\ Parent.vm.globals = [g |-> Integer(2)]
    /\ Parent.vm.current_module = << "good" >>
    /\ Parent.vm.module_loader = << "bad" >>

\* C18: the exports of a module in loaded_modules only gain bindings (no binding
\* is replaced or removed), and once the module's load has completed nothing
\* changes them
C18_ExportsAppendOnlyThenFrozen ==
    [][ scenario = "module" =>
          \A name \in DOMAIN Parent.vm.loaded_modules :
             /\ name \in DOMAIN Parent'.vm.loaded_modules
             /\ \A b \in DOMAIN Parent.vm.loaded_modules[name] :
                   /\ b \in DOMAIN Parent'.vm.loaded_modules[name]
                   /\ Parent'.vm.loaded_modules[name][b]
                        = Parent.vm.loaded_modules[name][b]
             /\ name \in log.loaded_ok
                   => Parent'.vm.loaded_modules[name] = Parent.vm.loaded_modules[name]
      ]_vars

\* C19: a spawned task starts with the globals its parent had at the spawn; from
\* then on a global written by the task is never seen by the parent (or by another
\* task), and a global written by the parent is never seen by the task: the
\* globals of a VM change only when that VM itself writes them
C19_GlobalsIsolated ==
    [][ scenario = "globals" =>
          /\ \A i \in DOMAIN machines' \ DOMAIN machines :
                machines'[i].vm.globals = Parent.vm.globals
          /\ Parent'.vm.globals # Parent.vm.globals => log'.calls = log.calls + 1
          /\ \A i \in TaskIds :
                machines'[i].vm.globals # machines[i].vm.globals
                   => /\ machines'[i].g.last = "StoreGlobal"
                      /\ machines'[i].vm.instruction_count
                           = machines[i].vm.instruction_count + 1
                      /\ \A j \in DOMAIN machines \ {i} :
                            machines'[j].vm.globals = machines[j].vm.globals
      ]_vars

C19_Witness ==
    /\ scenario = "globals"
    /\ Len(machines) = 3
    /\ Parent.vm.globals = [g |-> Integer(2)]
    /\ machines[2].phase = "ok"
    /\ machines[2].vm.globals = [g |-> Integer(0), t |-> Integer(1)]
    /\ machines[3].vm.instruction_count = 0
    /\ machines[3].vm.globals = [g |-> Integer(2)]

\* C20: after any sequence of record_execution and record_error calls, a node's
\* execution_count is the number of record_execution calls made for chunks mapped
\* to it, its is_hot_path is set exactly when that count exceeds 1,000, and a node
\* that was a hot path once still is
C20_HotPathAboveThreshold ==
    scenario = "tracker" =>
        /\ \A node_id \in DOMAIN Tracker.stats :
              /\ Tracker.stats[node_id].execution_count = Executions(node_id)
              /\ Tracker.stats[node_id].is_hot_path
                    <=> Tracker.stats[node_id].execution_count > HOT_PATH_THRESHOLD
        /\ \A node_id \in DOMAIN log.executions : node_id \in DOMAIN Tracker.stats
        /\ \A node_id \in log.was_hot : Tracker.stats[node_id].is_hot_path

C20_Witness ==
    /\ scenario = "tracker"
    /\ Executions(1) = HOT_PATH_THRESHOLD + 1
    /\ Tracker.stats[1].is_hot_path
    /\ Tracker.stats[1].execution_count = HOT_PATH_THRESHOLD + 1
    /\ Tracker.stats[1].error_count = 1
    /\ 2 \in DOMAIN Tracker.stats
    /\ ~Tracker.stats[2].is_hot_path

\* the step is a call of the channel API named op
BufferStep(op) ==
    scenario = "buffer" /\ log'.calls = log.calls + 1 /\ log'.api.op = op

\* C21: a channel made by create_channel never buffers more than 100 values; a send
\* on a channel at capacity fails with AsyncError and leaves the buffered values
\* as they were, a send on an unknown id fails and changes no channel, and any
\* other send returns at once with the value appended
C21_SendWithinCapacity ==
    [][ /\ scenario = "buffer" =>
              \A ch \in DOMAIN Parent'.vm.channels :
                 /\ Parent'.vm.channels[ch].cap = DEFAULT_CHANNEL_CAPACITY
                 /\ Len(Parent'.vm.channels[ch].buf) <= DEFAULT_CHANNEL_CAPACITY
        /\ BufferStep("send") =>
              LET ch == log'.api.id
              IN  IF ch \notin DOMAIN Parent.vm.channels
                  THEN /\ ~log'.api.res.ok
                       /\ Parent'.vm.channels = Parent.vm.channels
                  ELSE IF Len(Parent.vm.channels[ch].buf) >= DEFAULT_CHANNEL_CAPACITY
                  THEN /\ log'.api.res = Err("AsyncError")
                       /\ Parent'.vm.channels = Parent.vm.channels
                  ELSE /\ log'.api.res.ok
                       /\ Parent'.vm.channels[ch].buf
                            = Append(Parent.vm.channels[ch].buf, log'.api.value)
      ]_vars

C21_Witness ==
    /\ scenario = "buffer"
    /\ log.api.op = "send"
    /\ log.api.id = 1
    /\ log.api.res = Err("AsyncError")
    /\ Len(Parent.vm.channels[1].buf) = DEFAULT_CHANNEL_CAPACITY
    /\ Last(Parent.vm.channels[1].buf) = Integer(2)

\* C22: a receive on an existing channel returns at once: Nil from an empty
\* channel, which it leaves unchanged, and otherwise the oldest buffered value,
\* which it removes
C22_ReceiveNeverBlocks ==
    [][ (BufferStep("receive") /\ log'.api.id \in DOMAIN Parent.vm.channels) =>
           LET ch == log'.api.id
               buf == Parent.vm.channels[ch].buf
           IN  IF buf = <<>>
               THEN /\ log'.api.res = Ok(Nil)
                    /\ Parent'.vm.channels = Parent.vm.channels
               ELSE /\ log'.api.res = Ok(Head(buf))
                    /\ Parent'.vm.channels[ch].buf = Tail(buf)
                    /\ Parent'.vm.channels[ch].cap = Parent.vm.channels[ch].cap
      ]_vars

C22_Witness ==
    /\ scenario = "buffer"
    /\ log.api.op = "receive"
    /\ log.api.id = 1
    /\ log.api.res = Ok(Nil)
    /\ log.calls = 4
    /\ Parent.vm.channels[1].buf = <<>>

\* the step is a dispatch cycle of the parent VM that executes Await on a
\* registered promise
AwaitStep(promise_id) ==
    /\ scenario = "await"
    /\ Parent.phase = "running"
    /\ Parent'.vm.instruction_count = Parent.vm.instruction_count + 1
    /\ IpInRange(Parent.vm)
    /\ CurrentInstr(Parent.vm).opcode = "Await"
    /\ CanPop(Parent.vm)
    /\ Top(Parent.vm) = Promise(promise_id)
    /\ promise_id \in DOMAIN Parent.vm.promises

\* the task whose result goes to the parent's promise
TaskOf(promise_id) ==
    {i \in TaskIds : machines[i].tx[1].owner = 1
                     /\ machines[i].tx[1].promise_id = promise_id}

C24_AwaitPropagatesError ==
    [][ /\ \A promise_id \in 1..MaxMachines :
              \A i \in TaskOf(promise_id) :
                 (AwaitStep(promise_id) /\ machines[i].phase = "err") =>
                    /\ Parent'.phase = "err"
                    /\ Parent'.result = machines[i].result
                    /\ ~Parent'.result.ok
        /\ scenario = "await" =>
              \A i \in TaskIds :
                 (machines[i].phase = "running" /\ machines'[i].phase = "err") =>
                    /\ Parent'.phase = Parent.phase
                    /\ Parent'.result = Parent.result
                    /\ Parent'.g = Parent.g
                    /\ Parent'.vm = [Parent.vm EXCEPT !.promises = Parent'.vm.promises]
                    /\ DOMAIN Parent'.vm.promises = DOMAIN Parent.vm.promises
                    /\ \A p \in DOMAIN Parent.vm.promises :
                          p # machines[i].tx[1].promise_id
                          => Parent'.vm.promises[p] = Parent.vm.promises[p]
      ]_vars

\* C24 witness: the parent's run has ended with the UnknownIdentifier its task
\* ended with
C24_Witness ==
    /\ scenario = "await"
    /\ main_chunk = MAIN_AWAIT_SEND
    /\ Parent.g.last = "Await"
    /\ Parent.phase = "err"
    /\ Parent.result = Err("UnknownIdentifier")
    /\ \E i \in TaskIds : machines[i].result = Err("UnknownIdentifier")

\* C25: while an actor is processing a message with a handler that executes
\* Become, update_actor_state for the current actor does not fail: the handler
\* runs to its return without UnknownIdentifier
C25_BecomeSucceeds ==
    (/\ scenario = "actor"
     /\ host # <<>>
     /\ Last(host).kind = "actor"
     /\ Last(host).phase = "handling"
     /\ Last(host).actor.handler = Function(F_BECOME, <<>>)
     /\ Parent.vm.current_actor = {Last(host).actor_id})
    => /\ update_actor_state(Parent.vm, Last(host).actor_id, Integer(2)).st
            # "UnknownIdentifier"
       /\ call_value_loop(Parent.vm, Last(host).initial_call_depth, MaxFuel).st
            # "UnknownIdentifier"

\* the step is a call of the actor API named op in the scenario of the natives
NativeStep(op) ==
    scenario = "native" /\ log'.calls = log.calls + 1 /\ log'.api.op = op
                        /\ log'.native = log.native

\* C26: create_actor accepts a handler exactly when it is callable (a Function or
\* a NativeFunction): a handler that is not fails with TypeError and no actor is
\* registered, a callable one is registered under a fresh id with the state given
\* and an empty mailbox; and processing the messages of a registered actor never
\* fails with TypeError
C26_CreateActorAcceptsCallables ==
    [][ /\ NativeStep("create_actor") =>
              LET handler == log'.api.value
                  actor_id == log'.api.id
              IN  IF handler.t \in {"Function", "NativeFunction"}
                  THEN /\ log'.api.res = Ok(Actor(actor_id))
                       /\ actor_id \notin DOMAIN Parent.vm.actors
                       /\ actor_id \in DOMAIN Parent'.vm.actors
                       /\ Parent'.vm.actors[actor_id].handler = handler
                       /\ Parent'.vm.actors[actor_id].state \in InitialStates
                       /\ Parent'.vm.actors[actor_id].mailbox = <<>>
                       /\ \A a \in DOMAIN Parent.vm.actors :
                             Parent'.vm.actors[a] = Parent.vm.actors[a]
                  ELSE /\ log'.api.res = Err("TypeError")
                       /\ Parent'.vm.actors = Parent.vm.actors
        /\ NativeStep("process") => log'.api.res # Err("TypeError")
      ]_vars

\* C29: on each of the three paths a native function called with a number of
\* arguments other than its declared arity is not invoked and the call fails, and
\* a failure of the native function itself comes back as RuntimeError
C29_NativeArityChecked ==
    (/\ scenario = "native"
     /\ log.native.op # "none"
     /\ log.native.func # <<>>
     /\ log.native.func[1].t = "NativeFunction")
    => /\ Len(log.native.args) # log.native.func[1].arity
            => (~log.native.res.ok /\ log.native.called = <<>>)
       /\ (/\ Len(log.native.args) = log.native.func[1].arity
           /\ ~native_apply(log.native.func[1].name, log.native.args).ok)
            => log.native.res = Err("RuntimeError")

\* the step is a get_local or set_local of the embedder
LocalStep ==
    scenario = "locals" /\ log'.calls = log.calls + 1

\* stack_base + k is an index of the operand stack, for the frame on top
ValidLocal(vm, k) ==
    vm.call_stack # <<>> /\ Last(vm.call_stack).stack_base + k < Len(vm.stack)

\* what get_local and set_local do with a slot, failing with the kind given when
\* the slot is not on the stack
LocalsAccess(kind) ==
    LocalStep =>
       LET k == log'.api.id
           slot == Last(Parent.vm.call_stack).stack_base + k + 1
       IN  IF ~ValidLocal(Parent.vm, k)
           THEN /\ log'.api.res = Err(kind)
                /\ Parent'.vm = Parent.vm
           ELSE IF log'.api.op = "get_local"
           THEN /\ log'.api.res = Ok(Parent.vm.stack[slot])
                /\ Parent'.vm = Parent.vm
           ELSE /\ log'.api.res.ok
                /\ Parent'.vm = [Parent.vm EXCEPT !.stack[slot] = log'.api.value]

RunFails ==
    scenario = "limits" /\ Parent.phase = "running" /\ Parent'.phase = "err"

\* C27: every error run() returns carries a stack trace, the errors the dispatch
\* loop raises itself included (ip out of range, call depth breach, stack
\* underflow at the main return or at Halt)
C27_ErrorsCarryStackTrace ==
    [][ RunFails => /\ run_inner_stack_trace(Parent.vm) # {}
                    /\ None \notin run_inner_stack_trace(Parent.vm) ]_vars

\* the instruction budget of the installed manager is used up
BudgetUsedUp(vm) ==
    /\ vm.security_manager # <<>>
    /\ vm.security_manager[1].instructions >= vm.security_manager[1].max_instructions

\* the step is a call of the API named op under the security manager
LimitStep(op) ==
    scenario = "limits" /\ log'.calls = log.calls + 1 /\ log'.api.op = op

\* C30: with a security manager installed every instruction is counted against
\* the budget before it executes: a cycle of run() that executes an instruction
\* counts it, and once the budget is used up no instruction executes any more,
\* neither in run() nor in an actor's handler nor in an effect handler
C30_BudgetBoundsExecution ==
    [][ /\ (scenario = "limits" /\ Parent.phase = "running"
            /\ Parent'.vm.instruction_count = Parent.vm.instruction_count + 1)
           => /\ ~BudgetUsedUp(Parent.vm)
              /\ Parent'.vm.security_manager[1].instructions
                   = Parent.vm.security_manager[1].instructions + 1
        /\ (scenario = "limits" /\ Parent.phase = "running" /\ BudgetUsedUp(Parent.vm)
            /\ IpInRange(Parent.vm))
           => /\ Parent'.phase = "err"
              /\ Parent'.result = Err("ResourceLimitExceeded")
              /\ Parent'.vm = Parent.vm
        /\ (LimitStep("process") /\ BudgetUsedUp(Parent.vm)
            /\ 1 \in DOMAIN Parent.vm.actors /\ Parent.vm.actors[1].mailbox # <<>>)
           => ~log'.api.res.ok
        /\ (LimitStep("call_handler_function") /\ BudgetUsedUp(Parent.vm))
           => ~log'.api.res.ok
      ]_vars

(* ---- C31 ---- *)
DispatchStep(op) ==
    scenario = "dispatch" /\ log'.calls = log.calls + 1 /\ log'.api.op = op

\* the current frame's ip and the instructions of its chunk
CurrentIp(vm) == Last(vm.call_stack).ip
CurrentInstructions(vm) == ChunkAt(Last(vm.call_stack).chunk_id).instructions
\* the ip is the target of a jump instruction of the chunk
IsJumpTarget(vm) ==
    \E k \in 1..Len(CurrentInstructions(vm)) :
       /\ CurrentInstructions(vm)[k].opcode \in {"Jump", "JumpIfNot"}
       /\ CurrentInstructions(vm)[k].arg = CurrentIp(vm)
\* the functions of DispatchCalls whose ip leaves the chunk after their first push
LeavesChunk(func) == func.chunk_id \in {MAIN_FALL, MAIN_JUMP_OUT}

\* a cycle of run() whose ip is no instruction index ends the run with
\* InvalidJumpTarget and changes nothing; only a cycle with a valid ip executes
RunChecksIp ==
    (scenario = "dispatch" /\ Parent.phase = "running") =>
       /\ ~IpInRange(Parent.vm) =>
             /\ Parent'.phase = "err"
             /\ Parent'.result = Err("InvalidJumpTarget")
             /\ Parent'.vm = Parent.vm
       /\ Parent'.vm.instruction_count # Parent.vm.instruction_count =>
             IpInRange(Parent.vm)

\* a call of a function that leaves its chunk ends with the given error, the
\* function's frame left where the ip went out of range and nothing run after it
CallChecksIp(op, kind) ==
    (DispatchStep(op) /\ LeavesChunk(log'.api.value)) =>
       /\ log'.api.res = Err(kind)
       /\ Len(Parent'.vm.call_stack) = Len(Parent.vm.call_stack) + 1
       /\ Last(Parent'.vm.call_stack).chunk_id = log'.api.value.chunk_id
       /\ ~IpInRange(Parent'.vm)
       /\ Parent'.vm.stack = Parent.vm.stack \o << Integer(1) >>

\* C31 as stated: at the start of every dispatch cycle the ip of the current frame
\* is at most the length of its chunk, no instruction is fetched outside the
\* chunk, and an ip that is no instruction index stops the loop with
\* InvalidJumpTarget in run_inner, call_value and call_handler_function alike,
\* nothing being executed
C31_IpWithinChunk ==
    [][ /\ (scenario = "dispatch" /\ Parent.phase = "running") =>
              CurrentIp(Parent.vm) <= Len(CurrentInstructions(Parent.vm))
        /\ RunChecksIp
        /\ CallChecksIp("call_value", "InvalidJumpTarget")
        /\ CallChecksIp("call_handler_function", "InvalidJumpTarget") ]_vars

\* C31, amended: the ip of the current frame is at most the length of its chunk
\* unless a jump instruction names a target beyond it; no instruction is fetched
\* outside the chunk; run_inner and call_value stop with InvalidJumpTarget and
\* call_handler_function stops with RuntimeError, nothing being executed
C31_IpChecked ==
    [][ /\ (scenario = "dispatch" /\ Parent.phase = "running") =>
              \/ CurrentIp(Parent.vm) <= Len(CurrentInstructions(Parent.vm))
              \/ IsJumpTarget(Parent.vm)
        /\ RunChecksIp
        /\ CallChecksIp("call_value", "InvalidJumpTarget")
        /\ CallChecksIp("call_handler_function", "RuntimeError") ]_vars

\* a run has ended at an ip past the end of its chunk, and call_handler_function
\* has been called on a function that falls off its end
C31_Witness ==
    /\ scenario = "dispatch"
    /\ main_chunk = MAIN_JUMP_OUT
    /\ Parent.phase = "err"
    /\ Parent.result = Err("InvalidJumpTarget")
    /\ log.api.op = "call_handler_function"
    /\ log.api.value = Function(MAIN_FALL, <<>>)
    /\ log.api.res = Err("RuntimeError")

(* ---- C32 ---- *)
\* the parent is about to execute an instruction with this opcode
Executes(opcode) ==
    /\ scenario = "dispatch"
    /\ Parent.phase = "running"
    /\ IpInRange(Parent.vm)
    /\ CurrentInstr(Parent.vm).opcode = opcode

\* C32: with no collector installed GcAlloc leaves the value on top of the stack as
\* it is, and GcDeref executed right after GcAlloc succeeds and leaves on top the
\* value GcAlloc was given, with a collector installed and with none
C32_GcTransparent ==
    [][ /\ (Executes("GcAlloc") /\ Parent.vm.gc = <<>>) =>
              /\ Parent'.phase = "running"
              /\ Parent'.vm.stack = Parent.vm.stack
        /\ (Executes("GcDeref") /\ Parent.g.last = "GcAlloc") =>
              /\ Parent'.phase = "running"
              /\ Parent'.vm.stack = Parent.g.pre_stack ]_vars

(* ---- C33 ---- *)
\* the kinds of value that carry an id, and the kinds compared by their structure
IdKinds == {"Promise", "Channel", "Cell", "Actor"}
DataKinds == {"Nil", "Boolean", "Integer", "String", "Symbol", "List", "Vector",
              "Map", "Tagged"}

\* C33: values_equal answers true for two values of the same id-carrying kind with
\* the same id and for two functions with the same chunk and equal environments,
\* compares data by structure, and is reflexive and symmetric on all of these
C33_EqualityByIdentity ==
    (scenario = "equal" /\ log.api.op = "values_equal") =>
       LET a == log.api.value[1]
           b == log.api.value[2]
           equal == log.api.res
       IN  /\ (a.t \in IdKinds /\ a.t = b.t /\ a.id = b.id) => equal
           /\ (a.t = "Function" /\ b.t = "Function" /\ a.chunk_id = b.chunk_id
                 /\ a.env = b.env) => equal
           /\ (a.t \in DataKinds /\ b.t \in DataKinds) => (equal <=> a = b)
           /\ (a.t \in IdKinds \cup DataKinds \cup {"Function"}) =>
                 /\ a = b => equal
                 /\ equal = values_equal(b, a)

(* ---- C34 ---- *)
\* the functions of DispatchCalls that end with their own Return, and the value
\* each returns for the arguments it is given there
ReturnsValue(func) == func.chunk_id \in {F_ONE, F_FOLD, F_REC, F_CALLS}
ReturnedValue(func) ==
    CASE func.chunk_id = F_ONE -> Integer(1)
      [] func.chunk_id = F_FOLD -> Integer(4)
      [] func.chunk_id = F_REC -> Integer(0)
      [] func.chunk_id = F_CALLS -> Integer(1)

\* C34: call_handler_function returns the value of the handler's own Return, also
\* when the handler calls functions of its own or of another chunk, and leaves the
\* call-stack depth and the operand stack below the arguments as they were
C34_HandlerCalledAsFunction ==
    [][ (DispatchStep("call_handler_function") /\ ReturnsValue(log'.api.value)) =>
           /\ log'.api.res = Ok(ReturnedValue(log'.api.value))
           /\ Len(Parent'.vm.call_stack) = Len(Parent.vm.call_stack)
           /\ IsPrefix(Parent.vm.stack, Parent'.vm.stack) ]_vars

(* ---- C35 ---- *)
\* the run ends in this step with the value on top of the stack, which is taken
\* off, or with StackUnderflow when the stack is empty
EndsWithTop ==
    IF CanPop(Parent.vm)
    THEN /\ Parent'.phase = "ok"
         /\ Parent'.result = Ok(Top(Parent.vm))
         /\ Parent'.vm.stack = Front(Parent.vm.stack)
    ELSE /\ Parent'.phase = "err"
         /\ Parent'.result = Err("StackUnderflow")

\* within run(): a Halt at any call depth, and a Return in the last frame
RunEndsAtHalt ==
    /\ Executes("Halt") => EndsWithTop
    /\ (Executes("Return") /\ Len(Parent.vm.call_stack) = 1) => EndsWithTop

\* the functions of DispatchCalls that execute Halt, with a value to halt on or not
Halts(func) == func.chunk_id \in {MAIN_HALT, MAIN_HALT_EMPTY}

\* C35 as stated: a Halt ends the execution with the top-of-stack value
\* (StackUnderflow when the stack is empty) in the main frame, in a called
\* function, in a function run by call_value and in one run by call_handler_function
C35_HaltTerminates ==
    [][ /\ RunEndsAtHalt
        /\ \A op \in {"call_value", "call_handler_function"} :
              (DispatchStep(op) /\ Halts(log'.api.value)) =>
                 IF log'.api.value.chunk_id = MAIN_HALT
                 THEN log'.api.res.ok
                 ELSE log'.api.res = Err("StackUnderflow") ]_vars

\* C35, amended: within run() a Halt at any call depth ends the run with the
\* top-of-stack value (StackUnderflow when the stack is empty), as does a Return
\* in the last frame; in a function run by call_value a Halt ends the call with
\* RuntimeError and leaves the function's frame; in one run by
\* call_handler_function a Halt is a return: the value above the frame's base is
\* returned and the frame popped (RuntimeError when there is none)
C35_HaltEndsTheLoop ==
    [][ /\ RunEndsAtHalt
        /\ (DispatchStep("call_value") /\ Halts(log'.api.value)) =>
              /\ log'.api.res = Err("RuntimeError")
              /\ Len(Parent'.vm.call_stack) = Len(Parent.vm.call_stack) + 1
        /\ (DispatchStep("call_handler_function") /\ Halts(log'.api.value)) =>
              IF log'.api.value.chunk_id = MAIN_HALT
              THEN /\ log'.api.res = Ok(Integer(2))
                   /\ Parent'.vm.call_stack = Parent.vm.call_stack
                   /\ Parent'.vm.stack = Parent.vm.stack
              ELSE log'.api.res = Err("RuntimeError") ]_vars

\* a run has ended at the Halt of a called function, two frames deep, and a
\* function that halts has then been called through call_value
C35_Witness ==
    /\ scenario = "dispatch"
    /\ main_chunk = MAIN_CALL_HALT
    /\ Parent.g.last = "Halt"
    /\ Parent.g.pre_depth = 2
    /\ Parent.result = Ok(Integer(2))
    /\ log.api.op = "call_value"
    /\ log.api.value = Function(MAIN_HALT, <<>>)
    /\ log.api.res = Err("RuntimeError")

LifeStep(op) ==
    scenario = "lifecycle" /\ log'.calls = log.calls + 1 /\ log'.api.op = op

\* the actor processed by the step holds one message, which names the actor
\* `target`, and its handler sends its state to the actor the message names
SendsTo(target) ==
    /\ LifeStep("process")
    /\ log'.api.id \in DOMAIN Parent.vm.actors
    /\ Parent.vm.actors[log'.api.id].handler = Function(F_SELF_SEND, <<>>)
    /\ Parent.vm.actors[log'.api.id].mailbox = << Actor(target) >>
    /\ target \in DOMAIN Parent.vm.actors
    /\ Len(Parent.vm.actors[target].mailbox) < ACTOR_MAILBOX_CAPACITY

\* C36: an ActorSend executed by a handler to a created actor with room in its
\* mailbox succeeds, also when the target is the actor whose handler is running:
\* the send does not fail with UnknownIdentifier, and the message sent to
\* another actor is appended behind the messages already waiting there, the
\* target's handler not being run (its state is unchanged)
C36_ActorSendEnqueues ==
    [][ \A target \in 1..MaxActors :
          SendsTo(target) =>
             /\ log'.api.res # Err("UnknownIdentifier")
             /\ target # log'.api.id =>
                  /\ log'.api.res.ok
                  /\ Parent'.vm.actors[target] =
                        [Parent.vm.actors[target] EXCEPT
                           !.mailbox = Append(@, Parent.vm.actors[log'.api.id].state)]
      ]_vars

\* the step processes a registered actor
Processes(actor_id) ==
    LifeStep("process") /\ log'.api.id = actor_id /\ actor_id \in DOMAIN Parent.vm.actors

\* the actor is registered after the step as before it, with its handler and
\* the messages of its mailbox that were not handled, and no actor is current
ActorKept(actor_id) ==
    /\ actor_id \in DOMAIN Parent'.vm.actors
    /\ Parent'.vm.actors[actor_id].handler = Parent.vm.actors[actor_id].handler
    /\ \E k \in 0..Len(Parent.vm.actors[actor_id].mailbox) :
          Parent'.vm.actors[actor_id].mailbox =
             SubSeq(Parent.vm.actors[actor_id].mailbox, k + 1,
                    Len(Parent.vm.actors[actor_id].mailbox))
    /\ Parent'.vm.current_actor = {}
    /\ Parent'.vm.current_actor_message = <<>>

\* C37: after process_actor_messages(id) returns, with Ok or with an error of
\* the handler, the actor is still registered under id with its handler and
\* its unprocessed messages, and current_actor and current_actor_message are None
C37_ActorNeverLost ==
    [][ \A actor_id \in 1..MaxActors : Processes(actor_id) => ActorKept(actor_id) ]_vars

\* C38: call_value(argc) on a function that returns gives Ok only with the call
\* depth of before the call and with the operand stack that lay below the
\* function value plus exactly the function's return value, also when the
\* function calls other functions before it returns
C38_CallValueFrameEffect ==
    [][ (DispatchStep("call_value") /\ ReturnsValue(log'.api.value) /\ log'.api.res.ok) =>
           /\ Len(Parent'.vm.call_stack) = Len(Parent.vm.call_stack)
           /\ Parent'.vm.stack = Append(Parent.vm.stack, ReturnedValue(log'.api.value))
      ]_vars

\* the run that has just ended was the second of two runs in a row, the first
\* of which returned Ok
SecondRunDone ==
    /\ scenario = "dispatch"
    /\ log.api.op = "run" /\ log.api.id = 2
    /\ Parent.phase \in {"ok", "err"}

\* C39: a second run() on the same VM after a successful run, with no reset
\* between the two, returns the value the first returned, a successful run
\* leaving no frame on the call stack
C39_RunRepeatable ==
    /\ SecondRunDone => Parent.result = log.api.res
    /\ (scenario = "dispatch" /\ log.api.op = "run" /\ Parent.phase = "ok") =>
          Parent.vm.call_stack = <<>>

\* the runtime state that reset names is empty after the step
RuntimeStateCleared ==
    /\ Parent'.vm.stack = <<>> /\ Parent'.vm.call_stack = <<>>
    /\ Parent'.vm.globals = <<>> /\ Parent'.vm.promises = <<>>
    /\ Parent'.vm.channels = <<>> /\ Parent'.vm.cells = <<>>
    /\ Parent'.vm.handler_stack = <<>> /\ Parent'.vm.error_handler_stack = <<>>
    /\ Parent'.vm.finally_states = <<>> /\ Parent'.vm.loaded_modules = <<>>
    /\ Parent'.vm.module_stack = <<>> /\ Parent'.vm.current_module = <<>>
    /\ Parent'.vm.instruction_count = 0

\* the actors and the actor context are empty after the step
ActorsCleared ==
    /\ Parent'.vm.actors = <<>>
    /\ Parent'.vm.current_actor = {}
    /\ Parent'.vm.current_actor_message = <<>>

\* the configuration is after the step what it was before
ConfigurationKept ==
    /\ Parent'.vm.id_generator = Parent.vm.id_generator
    /\ Parent'.vm.max_call_depth = Parent.vm.max_call_depth
    /\ Parent'.vm.security_manager = Parent.vm.security_manager
    /\ Parent'.vm.gc = Parent.vm.gc
    /\ Parent'.vm.usage_tracker = Parent.vm.usage_tracker
    /\ Parent'.vm.module_loader = Parent.vm.module_loader

\* an id handed out by the step is the generator's next one, and no step sets
\* a generator back: an id is never handed out twice, across a reset either
IdsFresh ==
    /\ LifeStep("create_actor") /\ log'.api.res.ok =>
          /\ log'.api.res.val = Actor(Parent.vm.id_generator.actor)
          /\ Parent'.vm.id_generator.actor = Parent.vm.id_generator.actor + 1
    /\ LifeStep("create_channel") =>
          /\ log'.api.res.val = Channel(Parent.vm.id_generator.channel)
          /\ Parent'.vm.id_generator.channel = Parent.vm.id_generator.channel + 1
    /\ scenario = "lifecycle" =>
          /\ Parent'.vm.id_generator.actor >= Parent.vm.id_generator.actor
          /\ Parent'.vm.id_generator.channel >= Parent.vm.id_generator.channel
          /\ Parent'.vm.id_generator.promise >= Parent.vm.id_generator.promise

\* C40: reset() empties the runtime state (stack, call stack, globals, promises,
\* channels, cells, actors, handler stacks, finally states, module state, actor
\* context, instruction count) and leaves the configuration (id generator,
\* resource limits, security manager, collector, usage tracker) as it was; ids
\* allocated after it differ from those allocated before
C40_ResetClearsRuntimeState ==
    [][ /\ LifeStep("reset") =>
             (RuntimeStateCleared /\ ActorsCleared /\ ConfigurationKept)
        /\ IdsFresh ]_vars

====
